---- MODULE Spec2Model ----
(***************************************************************************)
(* RecipeFlow (src/src/App.js): the App component, its session bootstrap,  *)
(* the two live subscriptions, the three mutation handlers, the toast and  *)
(* the add-recipe dialog with its debounced metadata resolver.             *)
(*                                                                         *)
(* Text that the program matches or builds character by character (URLs,   *)
(* video identifiers, thumbnail URLs, titles) is a sequence of one-        *)
(* character strings; <<>> is the empty string ''.  Toast messages are     *)
(* only ever compared, so they are TLA+ strings.                           *)
(*                                                                         *)
(* Time is counted in ticks of TickMs milliseconds.  A timeout holds the   *)
(* milliseconds it still has to wait; it can fire once that reaches 0, and *)
(* time does not advance past a timeout that is due (the event loop is     *)
(* never blocked).                                                         *)
(*                                                                         *)
(* Specifications: Spec (the application from page load), SpecModal (the   *)
(* add-recipe dialog), SpecTags (its tag checkboxes), SpecExtract (the     *)
(* identifier of a pasted link), SpecDelete (deleting from the video       *)
(* dialog), SpecData (the grocery list and the handlers in a running       *)
(* session), SpecBrowse (the search field and the category sections).      *)
(***************************************************************************)
EXTENDS Integers, Sequences, FiniteSets, TLC

----------------------------------------------------------------------------
(* Character data *)

IdChars ==
    {"a", "b", "c", "d", "e", "f", "g", "h", "i", "j", "k", "l", "m", "n",
    "o", "p", "q", "r", "s", "t", "u", "v", "w", "x", "y", "z", "A", "B",
    "C", "D", "E", "F", "G", "H", "I", "J", "K", "L", "M", "N", "O", "P",
    "Q", "R", "S", "T", "U", "V", "W", "X", "Y", "Z", "0", "1", "2", "3",
    "4", "5", "6", "7", "8", "9", "_", "-"}

\* \s of the regular expressions
WhiteSpace ==
    {" ", "\t", "\n", "\r", "\f"}

\* the characters '.' does not match
LineTerminators ==
    {"\n", "\r"}

\* {11} in both regular expressions
IdLen ==
    11

LitYoutubeCom ==
    <<"y", "o", "u", "t", "u", "b", "e", ".", "c", "o", "m", "/">>
LitYoutuBe ==
    <<"y", "o", "u", "t", "u", ".", "b", "e", "/">>
LitShorts ==
    <<"y", "o", "u", "t", "u", "b", "e", ".", "c", "o", "m", "/", "s", "h",
    "o", "r", "t", "s", "/">>
LitV ==
    <<"v", "/">>
LitE ==
    <<"e", "/">>
LitEmbed ==
    <<"e", "m", "b", "e", "d", "/">>
LitVEq ==
    <<"v", "=">>
ThumbPrefix ==
    <<"h", "t", "t", "p", "s", ":", "/", "/", "i", "m", "g", ".", "y", "o",
    "u", "t", "u", "b", "e", ".", "c", "o", "m", "/", "v", "i", "/">>
ThumbSuffix ==
    <<"/", "h", "q", "d", "e", "f", "a", "u", "l", "t", ".", "j", "p", "g">>

\* the fallback titles of the resolver and of handleSubmit
TitleNotFound ==
    <<"U", "n", "t", "i", "t", "l", "e", "d", " ", "R", "e", "c", "i", "p",
    "e", " ", "(", "V", "i", "d", "e", "o", " ", "n", "o", "t", " ", "f",
    "o", "u", "n", "d", " ", "o", "r", " ", "p", "r", "i", "v", "a", "t",
    "e", ")">>
TitleFetchError ==
    <<"U", "n", "t", "i", "t", "l", "e", "d", " ", "R", "e", "c", "i", "p",
    "e", " ", "(", "E", "r", "r", "o", "r", " ", "f", "e", "t", "c", "h",
    "i", "n", "g", " ", "t", "i", "t", "l", "e", ")">>
TitleKeyMissing ==
    <<"U", "n", "t", "i", "t", "l", "e", "d", " ", "R", "e", "c", "i", "p",
    "e", " ", "(", "A", "P", "I", " ", "K", "e", "y", " ", "m", "i", "s",
    "s", "i", "n", "g", ")">>
TitleUntitled ==
    <<"U", "n", "t", "i", "t", "l", "e", "d", " ", "R", "e", "c", "i", "p",
    "e">>

\* const categories
categories ==
    <<"Breakfast", "Lunch", "Snacks", "Dinner", "Late-night">>

----------------------------------------------------------------------------
(* Inputs: the strings typed into the URL field, and the titles the        *)
(* metadata endpoint answers with.                                         *)

UrlShortA ==
    <<"h", "t", "t", "p", "s", ":", "/", "/", "y", "o", "u", "t", "u", ".",
    "b", "e", "/", "d", "Q", "w", "4", "w", "9", "W", "g", "X", "c", "Q">>
UrlWatchA ==
    <<"h", "t", "t", "p", "s", ":", "/", "/", "w", "w", "w", ".", "y", "o",
    "u", "t", "u", "b", "e", ".", "c", "o", "m", "/", "w", "a", "t", "c",
    "h", "?", "v", "=", "d", "Q", "w", "4", "w", "9", "W", "g", "X", "c",
    "Q">>
UrlEmbedA ==
    <<"h", "t", "t", "p", "s", ":", "/", "/", "w", "w", "w", ".", "y", "o",
    "u", "t", "u", "b", "e", ".", "c", "o", "m", "/", "e", "m", "b", "e",
    "d", "/", "d", "Q", "w", "4", "w", "9", "W", "g", "X", "c", "Q">>
UrlShortsB ==
    <<"h", "t", "t", "p", "s", ":", "/", "/", "y", "o", "u", "t", "u", "b",
    "e", ".", "c", "o", "m", "/", "s", "h", "o", "r", "t", "s", "/", "Z",
    "x", "_", "9", "-", "k", "L", "m", "N", "0", "p">>
UrlNotAUrl ==
    <<"n", "o", "t", " ", "a", " ", "u", "r", "l">>
IdA ==
    <<"d", "Q", "w", "4", "w", "9", "W", "g", "X", "c", "Q">>
IdB ==
    <<"Z", "x", "_", "9", "-", "k", "L", "m", "N", "0", "p">>
ThumbA ==
    <<"h", "t", "t", "p", "s", ":", "/", "/", "i", "m", "g", ".", "y", "o",
    "u", "t", "u", "b", "e", ".", "c", "o", "m", "/", "v", "i", "/", "d",
    "Q", "w", "4", "w", "9", "W", "g", "X", "c", "Q", "/", "h", "q", "d",
    "e", "f", "a", "u", "l", "t", ".", "j", "p", "g">>
ApiTitleA ==
    <<"D", "a", "l", " ", "T", "a", "d", "k", "a">>
ApiTitleB ==
    <<"M", "a", "s", "a", "l", "a", " ", "D", "o", "s", "a">>

EmptyStr ==
    <<>>

----------------------------------------------------------------------------
(* Pure functions *)

Max(S) ==
    CHOOSE x \in S : \A y \in S : y <= x

Min(S) ==
    CHOOSE x \in S : \A y \in S : x <= y

\* the literal lit occurs in s at position p
LitAt(s, p, lit) ==
    /\ p >= 1
    /\ p + Len(lit) - 1 <= Len(s)
    /\ SubSeq(s, p, p + Len(lit) - 1) = lit

\* ([a-zA-Z0-9_-]{11}) matches in s at position p
IdAt(s, p) ==
    /\ p >= 1
    /\ p + IdLen - 1 <= Len(s)
    /\ \A k \in p..(p + IdLen - 1) : s[k] \in IdChars

\* [^\/\n\s]+\/\S+\/ from position p, followed by the identifier: the
\* position of the identifier, 0 when there is no match.  The first run
\* stops at the first '/', the greedy \S+ takes the last '/' that works.
PathAlt(s, p) ==
    LET segEnds == {j \in (p + 1)..Len(s) :
                      /\ s[j] = "/"
                      /\ \A k \in p..(j - 1) : s[k] \notin ({"/"} \cup WhiteSpace)}
        ks == {k \in (p + 3)..Len(s) :
                 /\ segEnds # {}
                 /\ k >= Min(segEnds) + 2
                 /\ s[k] = "/"
                 /\ \A m \in (Min(segEnds) + 1)..(k - 1) : s[m] \notin WhiteSpace
                 /\ IdAt(s, k + 1)}
    IN  IF ks = {} THEN 0 ELSE Max(ks) + 1

\* (?:v|e(?:mbed)?)\/ from position p, followed by the identifier
EmbedAlt(s, p) ==
    IF LitAt(s, p, LitV) /\ IdAt(s, p + Len(LitV)) THEN p + Len(LitV)
    ELSE IF LitAt(s, p, LitEmbed) /\ IdAt(s, p + Len(LitEmbed)) THEN p + Len(LitEmbed)
    ELSE IF LitAt(s, p, LitE) /\ IdAt(s, p + Len(LitE)) THEN p + Len(LitE)
    ELSE 0

\* .*[?&]v= from position p, followed by the identifier; the greedy .*
\* takes the last [?&]v= that works
QueryAlt(s, p) ==
    LET ks == {k \in p..Len(s) :
                 /\ s[k] \in {"?", "&"}
                 /\ LitAt(s, k + 1, LitVEq)
                 /\ \A m \in p..(k - 1) : s[m] \notin LineTerminators
                 /\ IdAt(s, k + 1 + Len(LitVEq))}
    IN  IF ks = {} THEN 0 ELSE Max(ks) + 1 + Len(LitVEq)

\* youtubeRegex tried at position i: the position of group 1, or 0
youtubeRegexAt(s, i) ==
    IF LitAt(s, i, LitYoutubeCom)
         /\ ( \/ PathAlt(s, i + Len(LitYoutubeCom)) # 0
              \/ EmbedAlt(s, i + Len(LitYoutubeCom)) # 0
              \/ QueryAlt(s, i + Len(LitYoutubeCom)) # 0 )
    THEN LET p == i + Len(LitYoutubeCom)
         IN  IF PathAlt(s, p) # 0 THEN PathAlt(s, p)
             ELSE IF EmbedAlt(s, p) # 0 THEN EmbedAlt(s, p)
             ELSE QueryAlt(s, p)
    ELSE IF LitAt(s, i, LitYoutuBe) /\ IdAt(s, i + Len(LitYoutuBe))
    THEN i + Len(LitYoutuBe)
    ELSE 0

\* url.match(youtubeRegex): group 1 of the leftmost match, <<>> for null
youtubeRegex(s) ==
    LET starts == {i \in 1..Len(s) : youtubeRegexAt(s, i) # 0}
    IN  IF starts = {} THEN <<>>
        ELSE LET c == youtubeRegexAt(s, Min(starts))
             IN  SubSeq(s, c, c + IdLen - 1)

\* url.match(shortsRegex): group 1 of the leftmost match, <<>> for null
shortsRegex(s) ==
    LET starts == {i \in 1..Len(s) :
                     LitAt(s, i, LitShorts) /\ IdAt(s, i + Len(LitShorts))}
    IN  IF starts = {} THEN <<>>
        ELSE SubSeq(s, Min(starts) + Len(LitShorts),
                       Min(starts) + Len(LitShorts) + IdLen - 1)

\* an extraction that prefers the shorts pattern
getYoutubeVideoIdShortsFirst(url) ==
    LET match == youtubeRegex(url)
        shortsMatch == shortsRegex(url)
    IN  IF shortsMatch # <<>> THEN shortsMatch
        ELSE IF match # <<>> THEN match
        ELSE <<>>

\* getYoutubeVideoId: both patterns are matched, the general one is
\* preferred
getYoutubeVideoId(url) ==
    LET match == youtubeRegex(url)
        shortsMatch == shortsRegex(url)
    IN  IF match # <<>> THEN match
        ELSE IF shortsMatch # <<>> THEN shortsMatch
        ELSE <<>>

getYoutubeThumbnailUrl(videoId) ==
    IF videoId = <<>> THEN <<>>
    ELSE ThumbPrefix \o videoId \o ThumbSuffix

----------------------------------------------------------------------------
(* Bounds of the model *)

\* edits of the URL field
MaxEdits ==
    2

\* submissions of the add-recipe form
MaxSubmits ==
    1

\* direct invocations of the mutation handlers
MaxCalls ==
    1

(* Program delays, in milliseconds *)

\* setTimeout(..., 500) of the debounce effect
DebounceMs ==
    500

\* setTimeout(..., 3000) of showActionToast
ToastMs ==
    3000

\* setTimeout(..., 50) before 'Recipe Added!'
AddedToastMs ==
    50

\* the granularity of time: one tick to a debounce window
TickMs ==
    DebounceMs

\* the strings typed into the URL field
ModalUrls ==
    {EmptyStr, UrlShortA, UrlShortsB, UrlNotAUrl}

\* data.items[0].snippet.title for a video identifier
ApiTitle(videoId) ==
    IF videoId = IdA THEN ApiTitleA ELSE ApiTitleB

\* what the metadata call does: a result, no result, or a failure
FetchOutcomes ==
    {"items", "empty", "error"}

----------------------------------------------------------------------------
(* State *)

VARIABLES
    \* module level: auth && db
    fbInit,
    \* the App component is mounted
    appMounted,
    \* the onAuthStateChanged listener is attached
    authListener,
    \* the backend has a signed-in user
    authUser,
    \* auth state notifications not yet delivered to the listener
    authEvents,
    \* calls of signInAnonymously awaiting their answer
    signInFlight,
    \* useState of App
    isAuthReady, recipes, showAddModal, toastMessage, showToast,
    groceryText, isGroceryListEditing,
    showVideoModal, currentVideoId, searchTerm, currentView,
    \* the onSnapshot listeners are attached
    recipesSub, grocerySub,
    \* a snapshot is waiting to be delivered to the listener
    recipesDirty, groceryDirty,
    \* the backend: the recipes collection and the grocery document
    dbRecipes, dbGrocery, nextId,
    \* pending timeouts of showActionToast and of 'Recipe Added!'
    toastTimers, addedToasts,
    \* addDoc / getDocs+deleteDoc / setDoc calls awaiting their answer
    appends, deletes, saves,
    \* process.env.REACT_APP_YOUTUBE_API_KEY is set
    apiKey,
    \* useState of AddRecipeModal
    youtubeUrl, thumbnailUrl, videoTitle, selectedTags, isValidUrl,
    isLoadingThumbnail, isFetchingTitle,
    \* pending timeouts of the debounce effect, title fetches in flight
    handler, fetches,
    \* history: edits of the URL field and time since the last one; the
    \* edits of the current burst (each less than DebounceMs after the one
    \* before) and the title fetches started since the burst began
    edits, sinceEdit, burstEdits, burstFetches,
    \* history: submissions and what the last one did
    submits, lastSubmit,
    \* history: handler invocations, the last one, and a failed sign-in
    calls, lastCall, signInFailed,
    \* history: the last answer of the backend or of the metadata service
    lastAnswer,
    \* the delete-by-identifier calls of another session awaiting an answer
    remoteDeletes,
    \* the onSnapshot listeners the backend holds for this application
    recipeListeners, groceryListeners,
    \* React.StrictMode in a development build: "first" after the effects
    \* of the mount have run, "cleaned" after their simulated cleanup,
    \* "none" once they have run again (and in a production build)
    strictPhase

sessionVars ==
    <<fbInit, appMounted, authListener, authUser, authEvents, signInFlight,
      isAuthReady, signInFailed>>

dataVars ==
    <<recipes, groceryText, isGroceryListEditing, recipesSub, grocerySub,
      recipesDirty, groceryDirty, dbRecipes, dbGrocery, nextId>>

toastVars ==
    <<toastMessage, showToast, toastTimers, addedToasts>>

opVars ==
    <<appends, deletes, saves, calls, lastCall, lastAnswer>>

modalVars ==
    <<youtubeUrl, thumbnailUrl, videoTitle, selectedTags, isValidUrl,
      isLoadingThumbnail, isFetchingTitle, handler, fetches>>

modalHist ==
    <<edits, sinceEdit, burstEdits, burstFetches, submits, lastSubmit>>

\* the other session, the listeners at the backend, the StrictMode remount
auxVars ==
    <<remoteDeletes, recipeListeners, groceryListeners, strictPhase>>

\* the video dialog, the search field, the view shown
viewVars ==
    <<showVideoModal, currentVideoId, searchTerm, currentView>>

vars ==
    <<sessionVars, dataVars, toastVars, opVars, showAddModal, apiKey,
      viewVars, auxVars, modalVars, modalHist>>

\* the state of App whose change re-renders it
appState ==
    <<isAuthReady, showAddModal, toastMessage, showToast, groceryText,
      isGroceryListEditing, showVideoModal, currentVideoId, searchTerm,
      currentView>>

----------------------------------------------------------------------------
(* The add-recipe dialog.  AddRecipeModal is declared inside App, so each  *)
(* render of App makes a new component type: an open dialog is unmounted   *)
(* and a fresh one mounted.                                                *)

\* the fetches of an instance that is unmounted go on, but their setState
\* calls do nothing: they leave the model
Orphaned(F) ==
    {}

\* a cleanup that forgets clearTimeout
clearTimeoutForgotten(h) ==
    h

\* clearTimeout(handler) in the cleanup of the debounce effect
clearTimeout(h) ==
    {}

\* the useState initial values; no instance exists while the dialog is
\* closed and the variables then hold these values too
FreshDraft ==
    /\ youtubeUrl' = <<>>
    /\ thumbnailUrl' = <<>>
    /\ videoTitle' = <<>>
    /\ selectedTags' = <<>>
    /\ isValidUrl' = FALSE
    /\ isLoadingThumbnail' = FALSE
    /\ isFetchingTitle' = FALSE

\* mount: initial state, then the debounce effect runs for youtubeUrl = ''
\* (a previous instance, if any, is unmounted first)
MountModal ==
    /\ FreshDraft
    /\ handler' = clearTimeout(handler)
                    \cup {[url |-> <<>>, left |-> DebounceMs, epoch |-> edits]}
    /\ fetches' = Orphaned(fetches)
    /\ sinceEdit' = 0
    /\ burstEdits' = 0
    /\ burstFetches' = <<>>

\* unmount: the cleanups of the two effects. The debounce timeout is
\* cleared; the resetForm scheduled for one second later finds no instance
\* to reset, the draft having gone with the instance it belonged to
UnmountModal ==
    /\ FreshDraft
    /\ handler' = clearTimeout(handler)
    /\ fetches' = Orphaned(fetches)
    /\ sinceEdit' = 0
    /\ burstEdits' = 0
    /\ burstFetches' = <<>>

\* what a step that may have changed the state of App does to the dialog;
\* forced: the state holds a new object whatever its content (setRecipes)
RenderApp(forced) ==
    IF forced \/ appState' # appState
    THEN IF showAddModal' THEN MountModal
         ELSE IF showAddModal THEN UnmountModal
         ELSE UNCHANGED <<modalVars, sinceEdit, burstEdits,
                         burstFetches>>
    ELSE UNCHANGED <<modalVars, sinceEdit, burstEdits,
                         burstFetches>>

\* setToastMessage, setShowToast, setTimeout; the setters do nothing once
\* App is unmounted
showActionToast(message) ==
    /\ toastMessage' = IF appMounted THEN message ELSE toastMessage
    /\ showToast' = IF appMounted THEN TRUE ELSE showToast
    /\ toastTimers' = Append(toastTimers, ToastMs)

\* the disabled attribute of the submit button
SubmitDisabled ==
    ~isValidUrl \/ youtubeUrl = <<>> \/ isFetchingTitle

----------------------------------------------------------------------------
(* Mutation handlers and their completions *)

\* the frame of a handler invocation
Called(name) ==
    /\ calls' = calls + 1
    /\ lastCall' = name

\* a handleAddRecipe without its isAuthReady test
handleAddRecipeUngated(newRecipe, closes) ==
    /\ Called("handleAddRecipe")
    /\ appends' = Append(appends, [rec |-> newRecipe, closes |-> closes])
    /\ UNCHANGED <<toastMessage, showToast, toastTimers>>

\* handleAddRecipe up to its await; closes: the caller is handleSubmit,
\* which calls onClose() when the handler has returned
handleAddRecipe(newRecipe, closes) ==
    /\ Called("handleAddRecipe")
    /\ IF ~isAuthReady
       THEN /\ showActionToast("Application is loading. Please wait for authentication.")
            /\ UNCHANGED appends
       ELSE /\ appends' = Append(appends, [rec |-> newRecipe, closes |-> closes])
            /\ UNCHANGED <<toastMessage, showToast, toastTimers>>

RemoveAt(s, i) ==
    SubSeq(s, 1, i - 1) \o SubSeq(s, i + 1, Len(s))

\* the document addDoc stores: the record under a backend-assigned id
NewDoc(rec) ==
    [id |-> nextId, youtubeUrl |-> rec.youtubeUrl, videoId |-> rec.videoId,
     thumbnailUrl |-> rec.thumbnailUrl, title |-> rec.title, tags |-> rec.tags]

\* a handleAddRecipe that rethrows what it caught: handleSubmit never
\* reaches onClose() after a failed write
AppendResolveRethrows ==
    \E i \in DOMAIN appends, ok \in BOOLEAN :
        /\ appends' = RemoveAt(appends, i)
        /\ lastAnswer' = IF ok THEN "ok" ELSE "error"
        /\ IF ok
           THEN /\ dbRecipes' = Append(dbRecipes, NewDoc(appends[i].rec))
                /\ nextId' = nextId + 1
                /\ recipesDirty' = recipesSub
                /\ addedToasts' = Append(addedToasts, AddedToastMs)
                /\ UNCHANGED <<toastMessage, showToast, toastTimers>>
           ELSE /\ showActionToast("Failed to add recipe. Please check console.")
                /\ UNCHANGED <<dbRecipes, nextId, recipesDirty, addedToasts>>
        /\ showAddModal' = IF appends[i].closes /\ appMounted /\ ok THEN FALSE
                           ELSE showAddModal
        /\ UNCHANGED <<sessionVars, recipes, groceryText, isGroceryListEditing,
                       recipesSub, grocerySub, groceryDirty, dbGrocery,
                       deletes, saves, calls, lastCall, apiKey, auxVars, viewVars, edits,
                       submits, lastSubmit>>
        /\ RenderApp(FALSE)

\* addDoc answers; handleAddRecipe continues after its await and
\* handleSubmit, if it was the caller, calls onClose()
AppendResolve ==
    \E i \in DOMAIN appends, ok \in BOOLEAN :
        /\ appends' = RemoveAt(appends, i)
        /\ lastAnswer' = IF ok THEN "ok" ELSE "error"
        /\ IF ok
           THEN /\ dbRecipes' = Append(dbRecipes, NewDoc(appends[i].rec))
                /\ nextId' = nextId + 1
                /\ recipesDirty' = recipesSub
                /\ addedToasts' = Append(addedToasts, AddedToastMs)
                /\ UNCHANGED <<toastMessage, showToast, toastTimers>>
           ELSE /\ showActionToast("Failed to add recipe. Please check console.")
                /\ UNCHANGED <<dbRecipes, nextId, recipesDirty, addedToasts>>
        /\ showAddModal' = IF appends[i].closes /\ appMounted THEN FALSE
                           ELSE showAddModal
        /\ UNCHANGED <<sessionVars, recipes, groceryText, isGroceryListEditing,
                       recipesSub, grocerySub, groceryDirty, dbGrocery,
                       deletes, saves, calls, lastCall, apiKey, auxVars, viewVars, edits,
                       submits, lastSubmit>>
        /\ RenderApp(FALSE)

\* the timeout scheduled after a successful addDoc
ShowAddedToast ==
    /\ addedToasts # <<>>
    /\ Head(addedToasts) = 0
    /\ addedToasts' = Tail(addedToasts)
    /\ showActionToast("Recipe Added!")
    /\ UNCHANGED <<sessionVars, dataVars, opVars, showAddModal, apiKey, auxVars, viewVars, edits,
                   submits, lastSubmit>>
    /\ RenderApp(FALSE)

\* the timeout of showActionToast
ToastTimerFire ==
    /\ toastTimers # <<>>
    /\ Head(toastTimers) = 0
    /\ toastTimers' = Tail(toastTimers)
    /\ showToast' = IF appMounted THEN FALSE ELSE showToast
    /\ toastMessage' = IF appMounted THEN "" ELSE toastMessage
    /\ UNCHANGED <<sessionVars, dataVars, opVars, addedToasts, showAddModal,
                   apiKey, auxVars, viewVars, edits, submits, lastSubmit>>
    /\ RenderApp(FALSE)

\* the onSnapshot callback of the recipes collection
RecipesSnapshot ==
    /\ recipesSub
    /\ recipesDirty
    /\ recipes' = dbRecipes
    /\ recipesDirty' = FALSE
    /\ UNCHANGED <<sessionVars, groceryText, isGroceryListEditing, recipesSub,
                   grocerySub, groceryDirty, dbRecipes, dbGrocery, nextId,
                   toastVars, opVars, showAddModal, apiKey, auxVars, viewVars, edits, submits,
                   lastSubmit>>
    /\ RenderApp(TRUE)

----------------------------------------------------------------------------
(* The add-recipe dialog: user events, the debounce timeout, the fetch *)

\* the '+' button: setShowAddModal(true)
OpenModal ==
    /\ appMounted
    /\ ~showAddModal
    /\ showAddModal' = TRUE
    /\ UNCHANGED <<sessionVars, dataVars, toastVars, opVars, apiKey, auxVars, viewVars, edits,
                   submits, lastSubmit>>
    /\ RenderApp(FALSE)

\* the close button: onClose()
CloseModal ==
    /\ showAddModal
    /\ showAddModal' = FALSE
    /\ UNCHANGED <<sessionVars, dataVars, toastVars, opVars, apiKey, auxVars, viewVars, edits,
                   submits, lastSubmit>>
    /\ RenderApp(FALSE)

\* an effect that sets the loading flags whatever the field holds
LoadingAfterEditAlways(u) ==
    TRUE

\* if (youtubeUrl) in the debounce effect: after the cleanup has cleared
\* both loading flags, the effect sets them for a non-empty field
LoadingAfterEdit(u) ==
    u # <<>>

\* onChange of the URL field, then the debounce effect: the cleanup of the
\* previous run, a new timeout, the loading flags, the title
Edit ==
    \E u \in ModalUrls :
        /\ showAddModal
        /\ u # youtubeUrl
        /\ edits < MaxEdits
        /\ youtubeUrl' = u
        /\ handler' = clearTimeout(handler)
                        \cup {[url |-> u, left |-> DebounceMs, epoch |-> edits + 1]}
        /\ isLoadingThumbnail' = LoadingAfterEdit(u)
        /\ isFetchingTitle' = LoadingAfterEdit(u)
        /\ videoTitle' = <<>>
        /\ edits' = edits + 1
        /\ burstEdits' = IF sinceEdit < DebounceMs THEN burstEdits + 1 ELSE 1
        /\ burstFetches' = IF sinceEdit < DebounceMs THEN burstFetches ELSE <<>>
        /\ sinceEdit' = 0
        /\ UNCHANGED <<thumbnailUrl, isValidUrl, selectedTags, fetches>>
        /\ UNCHANGED <<sessionVars, dataVars, toastVars, opVars, showAddModal,
                       apiKey, auxVars, viewVars, submits, lastSubmit>>

\* the callback of the debounce timeout, up to its first await
DebounceFire ==
    \E t \in handler :
        /\ t.left = 0
        /\ handler' = handler \ {t}
        /\ LET videoId == getYoutubeVideoId(t.url)
           IN  IF videoId # <<>>
               THEN /\ thumbnailUrl' = getYoutubeThumbnailUrl(videoId)
                    /\ isValidUrl' = TRUE
                    /\ isLoadingThumbnail' = FALSE
                    /\ IF apiKey
                       THEN /\ isFetchingTitle' = TRUE
                            /\ fetches' = fetches \cup
                                 {[videoId |-> videoId, epoch |-> t.epoch]}
                            /\ burstFetches' = Append(burstFetches, videoId)
                            /\ UNCHANGED videoTitle
                       ELSE /\ videoTitle' = TitleKeyMissing
                            /\ UNCHANGED <<isFetchingTitle, fetches, burstFetches>>
               ELSE /\ thumbnailUrl' = <<>>
                    /\ videoTitle' = <<>>
                    /\ isValidUrl' = FALSE
                    /\ isLoadingThumbnail' = FALSE
                    /\ isFetchingTitle' = FALSE
                    /\ UNCHANGED <<fetches, burstFetches>>
        /\ UNCHANGED <<youtubeUrl, selectedTags, edits, sinceEdit, burstEdits>>
        /\ UNCHANGED <<sessionVars, dataVars, toastVars, opVars, showAddModal,
                       apiKey, auxVars, viewVars, submits, lastSubmit>>

\* a callback that takes an answer without results for a failure
ResolvedTitleNoElse(videoId, outcome) ==
    IF outcome = "items" THEN ApiTitle(videoId)
    ELSE TitleFetchError

\* the title the callback sets after its awaits
ResolvedTitle(videoId, outcome) ==
    IF outcome = "items" THEN ApiTitle(videoId)
    ELSE IF outcome = "empty" THEN TitleNotFound
    ELSE TitleFetchError

\* fetch / response.json() answer: the rest of the timeout callback
FetchResolve ==
    \E f \in fetches, outcome \in FetchOutcomes :
        /\ fetches' = fetches \ {f}
        /\ videoTitle' = ResolvedTitle(f.videoId, outcome)
        /\ isFetchingTitle' = FALSE
        /\ lastAnswer' = outcome
        /\ UNCHANGED <<youtubeUrl, thumbnailUrl, selectedTags, isValidUrl,
                       isLoadingThumbnail, handler>>
        /\ UNCHANGED <<sessionVars, dataVars, toastVars, appends, deletes,
                       saves, calls, lastCall, showAddModal, apiKey, auxVars, viewVars,
                       modalHist>>

\* a handleSubmit that trusts the validity flag alone
CanSubmitFlagOnly(valid, videoId) ==
    valid

\* the condition of handleSubmit
CanSubmit(valid, videoId) ==
    valid /\ videoId # <<>>

\* the record handleSubmit passes to onAddRecipe
DraftRecipe(videoId) ==
    [youtubeUrl |-> youtubeUrl, videoId |-> videoId,
     thumbnailUrl |-> thumbnailUrl,
     title |-> IF videoTitle # <<>> THEN videoTitle ELSE TitleUntitled,
     tags |-> IF Len(selectedTags) > 0 THEN selectedTags ELSE categories]

\* the submit button (enabled), then handleSubmit up to the await inside
\* handleAddRecipe; when the handler returns at once, onClose() follows
Submit ==
    /\ showAddModal
    /\ ~SubmitDisabled
    /\ submits < MaxSubmits
    /\ submits' = submits + 1
    /\ LET videoId == getYoutubeVideoId(youtubeUrl)
       IN  IF CanSubmit(isValidUrl, videoId)
           THEN /\ lastSubmit' = "appended"
                /\ handleAddRecipe(DraftRecipe(videoId), TRUE)
                /\ showAddModal' = IF isAuthReady THEN showAddModal ELSE FALSE
           ELSE /\ lastSubmit' = "rejected"
                /\ UNCHANGED <<appends, calls, lastCall, toastMessage,
                               showToast, toastTimers, showAddModal>>
    /\ UNCHANGED <<sessionVars, dataVars, addedToasts, deletes, saves,
                   lastAnswer, apiKey, auxVars, viewVars, edits>>
    /\ RenderApp(FALSE)

Dec(left) ==
    IF left > TickMs THEN left - TickMs ELSE 0

\* the milliseconds every pending timeout still waits
Lefts ==
    {t.left : t \in handler}
       \cup {toastTimers[i] : i \in DOMAIN toastTimers}
       \cup {addedToasts[i] : i \in DOMAIN addedToasts}

\* TickMs milliseconds pass
Tick ==
    /\ Lefts # {}
    /\ 0 \notin Lefts
    /\ handler' = {[t EXCEPT !.left = Dec(t.left)] : t \in handler}
    /\ toastTimers' = [i \in DOMAIN toastTimers |-> Dec(toastTimers[i])]
    /\ addedToasts' = [i \in DOMAIN addedToasts |-> Dec(addedToasts[i])]
    /\ sinceEdit' = IF sinceEdit + TickMs < DebounceMs THEN sinceEdit + TickMs
                    ELSE DebounceMs
    /\ UNCHANGED <<sessionVars, dataVars, toastMessage, showToast, opVars,
                   showAddModal, apiKey, auxVars, viewVars, youtubeUrl, thumbnailUrl, videoTitle,
                   selectedTags, isValidUrl, isLoadingThumbnail,
                   isFetchingTitle, fetches, edits, burstEdits, burstFetches,
                   submits, lastSubmit>>

----------------------------------------------------------------------------
(* The dialog in a running application *)

InitModal ==
    /\ fbInit = TRUE
    /\ appMounted = TRUE
    /\ authListener = TRUE
    /\ isAuthReady \in BOOLEAN
    /\ authUser = isAuthReady
    /\ authEvents = IF isAuthReady THEN <<>> ELSE <<FALSE>>
    /\ signInFlight = 0
    /\ signInFailed = FALSE
    /\ recipes = <<>>
    /\ groceryText = ""
    /\ isGroceryListEditing = FALSE
    /\ recipesSub = isAuthReady
    /\ grocerySub = isAuthReady
    /\ recipeListeners = IF recipesSub THEN 1 ELSE 0
    /\ groceryListeners = IF grocerySub THEN 1 ELSE 0
    /\ recipesDirty = FALSE
    /\ groceryDirty = FALSE
    /\ dbRecipes = <<>>
    /\ dbGrocery = [exists |-> FALSE, content |-> ""]
    /\ nextId = 1
    /\ toastMessage = ""
    /\ showToast = FALSE
    /\ toastTimers = <<>>
    /\ addedToasts = <<>>
    /\ appends = <<>>
    /\ deletes = <<>>
    /\ saves = <<>>
    /\ calls = 0
    /\ lastCall = "none"
    /\ lastAnswer = "none"
    /\ remoteDeletes = <<>>
    /\ strictPhase = "none"
    /\ showAddModal = FALSE
    /\ apiKey \in BOOLEAN
    /\ showVideoModal = FALSE
    /\ currentVideoId = <<>>
    /\ searchTerm = <<>>
    /\ currentView = "home"
    /\ youtubeUrl = <<>>
    /\ thumbnailUrl = <<>>
    /\ videoTitle = <<>>
    /\ selectedTags = <<>>
    /\ isValidUrl = FALSE
    /\ isLoadingThumbnail = FALSE
    /\ isFetchingTitle = FALSE
    /\ handler = {}
    /\ fetches = {}
    /\ edits = 0
    /\ sinceEdit = 0
    /\ burstEdits = 0
    /\ burstFetches = <<>>
    /\ submits = 0
    /\ lastSubmit = "none"

NextModal ==
    \/ OpenModal
    \/ CloseModal
    \/ Edit
    \/ DebounceFire
    \/ FetchResolve
    \/ Submit
    \/ AppendResolve
    \/ ShowAddedToast
    \/ ToastTimerFire
    \/ RecipesSnapshot
    \/ Tick

SpecModal ==
    InitModal /\ [][NextModal]_vars

----------------------------------------------------------------------------
(* Session bootstrap, subscriptions and the handlers of App *)

\* the records handed to handleAddRecipe
SampleRecipes ==
    {[youtubeUrl |-> UrlShortA, videoId |-> IdA,
      thumbnailUrl |-> getYoutubeThumbnailUrl(IdA), title |-> ApiTitleA,
      tags |-> categories],
     [youtubeUrl |-> UrlShortsB, videoId |-> IdB,
      thumbnailUrl |-> getYoutubeThumbnailUrl(IdB), title |-> TitleUntitled,
      tags |-> <<"Dinner">>]}

\* the shared collection as a page load finds it: empty, or holding a
\* record another session added
InitialCollections ==
    {<<>>,
     <<[id |-> 1, youtubeUrl |-> UrlShortA, videoId |-> IdA,
        thumbnailUrl |-> getYoutubeThumbnailUrl(IdA), title |-> ApiTitleA,
        tags |-> categories]>>}

\* the identifiers handed to handleDeleteRecipe
SampleIds ==
    {IdA, IdB}

\* subscription effects that run at every call, whether or not the flag
\* changed, on top of the listeners already attached
setIsAuthReadyTrueEveryCall ==
    IF appMounted
    THEN /\ isAuthReady' = TRUE
         /\ recipesSub' = TRUE
         /\ grocerySub' = TRUE
         /\ recipesDirty' = TRUE
         /\ groceryDirty' = TRUE
         /\ recipeListeners' = recipeListeners + 1
         /\ groceryListeners' = groceryListeners + 1
    ELSE UNCHANGED <<isAuthReady, recipesSub, grocerySub, recipesDirty,
                     groceryDirty, recipeListeners, groceryListeners>>

\* setIsAuthReady(true) and, when that changes the flag, the two
\* subscription effects: each attaches its listener, which is then owed a
\* first snapshot
setIsAuthReadyTrue ==
    IF appMounted /\ ~isAuthReady
    THEN /\ isAuthReady' = TRUE
         /\ recipesSub' = TRUE
         /\ grocerySub' = TRUE
         /\ recipesDirty' = TRUE
         /\ groceryDirty' = TRUE
         /\ recipeListeners' = recipeListeners + 1
         /\ groceryListeners' = groceryListeners + 1
    ELSE UNCHANGED <<isAuthReady, recipesSub, grocerySub, recipesDirty,
                     groceryDirty, recipeListeners, groceryListeners>>

\* the onAuthStateChanged callback up to its await (user null) or to its
\* end (user signed in)
AuthStateChanged ==
    /\ authListener
    /\ authEvents # <<>>
    /\ authEvents' = Tail(authEvents)
    /\ IF Head(authEvents)
       THEN /\ setIsAuthReadyTrue
            /\ UNCHANGED signInFlight
       ELSE /\ signInFlight' = signInFlight + 1
            /\ UNCHANGED <<isAuthReady, recipesSub, grocerySub, recipesDirty,
                           groceryDirty, recipeListeners, groceryListeners>>
    /\ UNCHANGED <<fbInit, appMounted, authListener, authUser, signInFailed,
                   recipes, groceryText, isGroceryListEditing, dbRecipes,
                   dbGrocery, nextId, toastVars, opVars, showAddModal, apiKey,
                   remoteDeletes, strictPhase, viewVars, edits, submits,
                   lastSubmit>>
    /\ RenderApp(FALSE)

\* signInAnonymously answers: the callback continues after its await (or in
\* its catch) and ends with setIsAuthReady(true); a success is also a change
\* of the auth state, notified to an attached listener
SignInResolve ==
    \E ok \in BOOLEAN :
        /\ signInFlight > 0
        /\ signInFlight' = signInFlight - 1
        /\ IF ok
           THEN /\ authUser' = TRUE
                /\ authEvents' = IF authListener THEN Append(authEvents, TRUE)
                                 ELSE authEvents
                /\ UNCHANGED signInFailed
           ELSE /\ signInFailed' = TRUE
                /\ UNCHANGED <<authUser, authEvents>>
        /\ setIsAuthReadyTrue
        /\ UNCHANGED <<fbInit, appMounted, authListener, recipes, groceryText,
                       isGroceryListEditing, dbRecipes, dbGrocery, nextId,
                       toastVars, opVars, showAddModal, apiKey, remoteDeletes,
                       strictPhase, viewVars, edits, submits, lastSubmit>>
        /\ RenderApp(FALSE)

\* App is torn down: the cleanups of the three effects (and of an open
\* dialog)
UnmountApp ==
    /\ appMounted
    /\ appMounted' = FALSE
    /\ authListener' = FALSE
    /\ recipesSub' = FALSE
    /\ grocerySub' = FALSE
    /\ recipesDirty' = FALSE
    /\ groceryDirty' = FALSE
    /\ recipeListeners' = IF recipesSub THEN recipeListeners - 1
                          ELSE recipeListeners
    /\ groceryListeners' = IF grocerySub THEN groceryListeners - 1
                           ELSE groceryListeners
    /\ showAddModal' = FALSE
    /\ IF showAddModal THEN UnmountModal
       ELSE UNCHANGED <<modalVars, sinceEdit, burstEdits, burstFetches>>
    /\ UNCHANGED <<fbInit, authUser, authEvents, signInFlight, isAuthReady,
                   signInFailed, recipes, groceryText, isGroceryListEditing,
                   dbRecipes, dbGrocery, nextId, toastVars, opVars, apiKey,
                   remoteDeletes, strictPhase, viewVars, edits, submits,
                   lastSubmit>>

\* a listener that keeps the typed text while the list is being edited
GrocerySnapshotUnlessEditing ==
    /\ grocerySub
    /\ groceryDirty
    /\ groceryText' = IF isGroceryListEditing THEN groceryText
                      ELSE IF dbGrocery.exists THEN dbGrocery.content ELSE ""
    /\ groceryDirty' = FALSE
    /\ UNCHANGED <<sessionVars, recipes, isGroceryListEditing, recipesSub,
                   grocerySub, recipesDirty, dbRecipes, dbGrocery, nextId,
                   toastVars, opVars, showAddModal, apiKey, auxVars, viewVars, edits, submits,
                   lastSubmit>>
    /\ RenderApp(FALSE)

\* the onSnapshot callback of the grocery document
GrocerySnapshot ==
    /\ grocerySub
    /\ groceryDirty
    /\ groceryText' = IF dbGrocery.exists THEN dbGrocery.content ELSE ""
    /\ groceryDirty' = FALSE
    /\ UNCHANGED <<sessionVars, recipes, isGroceryListEditing, recipesSub,
                   grocerySub, recipesDirty, dbRecipes, dbGrocery, nextId,
                   toastVars, opVars, showAddModal, apiKey, auxVars, viewVars, edits, submits,
                   lastSubmit>>
    /\ RenderApp(FALSE)

\* the error callback of the recipes listener; the backend ends a listener
\* it reports an error to
RecipesSnapshotError ==
    /\ recipesSub
    /\ recipesSub' = FALSE
    /\ recipesDirty' = FALSE
    /\ recipeListeners' = recipeListeners - 1
    /\ showActionToast("Failed to load recipes. Please check console for details.")
    /\ UNCHANGED <<sessionVars, recipes, groceryText, isGroceryListEditing,
                   grocerySub, groceryDirty, dbRecipes, dbGrocery, nextId,
                   addedToasts, opVars, showAddModal, apiKey, remoteDeletes,
                   groceryListeners, strictPhase, viewVars, edits, submits,
                   lastSubmit>>
    /\ RenderApp(FALSE)

\* the error callback of the grocery listener
GrocerySnapshotError ==
    /\ grocerySub
    /\ grocerySub' = FALSE
    /\ groceryDirty' = FALSE
    /\ groceryListeners' = groceryListeners - 1
    /\ showActionToast("Failed to load grocery list. Please check console for details.")
    /\ UNCHANGED <<sessionVars, recipes, groceryText, isGroceryListEditing,
                   recipesSub, recipesDirty, dbRecipes, dbGrocery, nextId,
                   addedToasts, opVars, showAddModal, apiKey, recipeListeners,
                   remoteDeletes, strictPhase, viewVars, edits, submits,
                   lastSubmit>>
    /\ RenderApp(FALSE)

\* a handleDeleteRecipe without its isAuthReady test
handleDeleteRecipeUngated(videoIdToDelete) ==
    /\ Called("handleDeleteRecipe")
    /\ deletes' = Append(deletes, [videoId |-> videoIdToDelete,
                                   stage |-> "getDocs", docId |-> 0])
    /\ UNCHANGED <<toastMessage, showToast, toastTimers>>

\* handleDeleteRecipe up to its first await
handleDeleteRecipe(videoIdToDelete) ==
    /\ Called("handleDeleteRecipe")
    /\ IF ~isAuthReady
       THEN /\ showActionToast("Application is loading. Cannot delete.")
            /\ UNCHANGED deletes
       ELSE /\ deletes' = Append(deletes, [videoId |-> videoIdToDelete,
                                           stage |-> "getDocs", docId |-> 0])
            /\ UNCHANGED <<toastMessage, showToast, toastTimers>>

\* a handleSaveGroceryList that writes back the stored text, not the typed
handleSaveGroceryListStored ==
    /\ Called("handleSaveGroceryList")
    /\ IF ~isAuthReady
       THEN /\ showActionToast("Application is loading. Cannot save.")
            /\ UNCHANGED saves
       ELSE /\ saves' = Append(saves, [content |-> dbGrocery.content])
            /\ UNCHANGED <<toastMessage, showToast, toastTimers>>

\* handleSaveGroceryList up to its await; the text is the one of the render
\* the handler belongs to
handleSaveGroceryList ==
    /\ Called("handleSaveGroceryList")
    /\ IF ~isAuthReady
       THEN /\ showActionToast("Application is loading. Cannot save.")
            /\ UNCHANGED saves
       ELSE /\ saves' = Append(saves, [content |-> groceryText])
            /\ UNCHANGED <<toastMessage, showToast, toastTimers>>

\* a call of handleAddRecipe
AddRecipeCall ==
    \E newRecipe \in SampleRecipes :
        /\ appMounted
        /\ calls < MaxCalls
        /\ handleAddRecipe(newRecipe, FALSE)
        /\ UNCHANGED <<sessionVars, dataVars, addedToasts, deletes, saves,
                       lastAnswer, showAddModal, apiKey, auxVars, viewVars, edits, submits, lastSubmit>>
        /\ RenderApp(FALSE)

\* a call of handleDeleteRecipe
DeleteRecipeCall ==
    \E videoIdToDelete \in SampleIds :
        /\ appMounted
        /\ calls < MaxCalls
        /\ handleDeleteRecipe(videoIdToDelete)
        /\ UNCHANGED <<sessionVars, dataVars, addedToasts, appends, saves,
                       lastAnswer, showAddModal, apiKey, auxVars, viewVars, edits, submits, lastSubmit>>
        /\ RenderApp(FALSE)

\* a call of handleSaveGroceryList
SaveGroceryCall ==
    /\ appMounted
    /\ calls < MaxCalls
    /\ handleSaveGroceryList
    /\ UNCHANGED <<sessionVars, dataVars, addedToasts, appends, deletes,
                   lastAnswer, showAddModal, apiKey, auxVars, viewVars, edits, submits, lastSubmit>>
    /\ RenderApp(FALSE)

\* a query without its where clause
MatchingAll(videoId) ==
    DOMAIN dbRecipes

\* the documents of the collection with a given videoId
Matching(videoId) ==
    {i \in DOMAIN dbRecipes : dbRecipes[i].videoId = videoId}

\* the collection without the document of a given id
WithoutDoc(docId) ==
    SelectSeq(dbRecipes, LAMBDA d : d.id # docId)

\* getDocs answers: handleDeleteRecipe continues to deleteDoc, or ends with
\* 'not found' or in its catch.  docs[0] is the first match in the order of
\* the backend's document ids, which are random: any match
DeleteQueryResolve ==
    \E i \in DOMAIN deletes, ok \in BOOLEAN :
        /\ deletes[i].stage = "getDocs"
        /\ lastAnswer' = IF ok THEN "ok" ELSE "error"
        /\ IF ok /\ Matching(deletes[i].videoId) # {}
           THEN /\ \E m \in Matching(deletes[i].videoId) :
                     deletes' = [deletes EXCEPT ![i].stage = "deleteDoc",
                                                ![i].docId = dbRecipes[m].id]
                /\ UNCHANGED <<toastMessage, showToast, toastTimers>>
           ELSE /\ deletes' = RemoveAt(deletes, i)
                /\ IF ok
                   THEN showActionToast("Recipe not found!")
                   ELSE showActionToast("Failed to delete recipe. Please check console.")
        /\ UNCHANGED <<sessionVars, dataVars, addedToasts, appends, saves,
                       calls, lastCall, showAddModal, apiKey, auxVars, viewVars, edits, submits,
                       lastSubmit>>
        /\ RenderApp(FALSE)

\* a handleDeleteRecipe that also drops the record from the in-memory list
DeleteResolveOptimistic ==
    \E i \in DOMAIN deletes, ok \in BOOLEAN :
        /\ deletes[i].stage = "deleteDoc"
        /\ deletes' = RemoveAt(deletes, i)
        /\ lastAnswer' = IF ok THEN "ok" ELSE "error"
        /\ IF ok
           THEN /\ dbRecipes' = WithoutDoc(deletes[i].docId)
                /\ recipesDirty' = IF WithoutDoc(deletes[i].docId) # dbRecipes
                                   THEN recipesSub ELSE recipesDirty
                /\ showActionToast("Recipe Deleted!")
           ELSE /\ showActionToast("Failed to delete recipe. Please check console.")
                /\ UNCHANGED <<dbRecipes, recipesDirty>>
        /\ recipes' = IF ok /\ appMounted
                       THEN SelectSeq(recipes,
                                      LAMBDA r : r.id # deletes[i].docId)
                       ELSE recipes
        /\ UNCHANGED <<sessionVars, groceryText, isGroceryListEditing,
                       recipesSub, grocerySub, groceryDirty, dbGrocery, nextId,
                       addedToasts, appends, saves, calls, lastCall,
                       showAddModal, apiKey, auxVars, viewVars, edits, submits, lastSubmit>>
        /\ RenderApp(FALSE)

\* deleteDoc answers: the rest of handleDeleteRecipe
DeleteResolve ==
    \E i \in DOMAIN deletes, ok \in BOOLEAN :
        /\ deletes[i].stage = "deleteDoc"
        /\ deletes' = RemoveAt(deletes, i)
        /\ lastAnswer' = IF ok THEN "ok" ELSE "error"
        /\ IF ok
           THEN /\ dbRecipes' = WithoutDoc(deletes[i].docId)
                /\ recipesDirty' = IF WithoutDoc(deletes[i].docId) # dbRecipes
                                   THEN recipesSub ELSE recipesDirty
                /\ showActionToast("Recipe Deleted!")
           ELSE /\ showActionToast("Failed to delete recipe. Please check console.")
                /\ UNCHANGED <<dbRecipes, recipesDirty>>
        /\ UNCHANGED <<sessionVars, recipes, groceryText, isGroceryListEditing,
                       recipesSub, grocerySub, groceryDirty, dbGrocery, nextId,
                       addedToasts, appends, saves, calls, lastCall,
                       showAddModal, apiKey, auxVars, viewVars, edits, submits, lastSubmit>>
        /\ RenderApp(FALSE)

\* a handleSaveGroceryList that leaves edit mode in a finally block
SaveResolveFinally ==
    \E i \in DOMAIN saves, ok \in BOOLEAN :
        /\ saves' = RemoveAt(saves, i)
        /\ lastAnswer' = IF ok THEN "ok" ELSE "error"
        /\ IF ok
           THEN /\ dbGrocery' = [exists |-> TRUE, content |-> saves[i].content]
                /\ groceryDirty' = grocerySub
                /\ isGroceryListEditing' = IF appMounted THEN FALSE
                                           ELSE isGroceryListEditing
                /\ showActionToast("Grocery List Saved!")
           ELSE /\ showActionToast("Failed to save grocery list. Please check console.")
                /\ isGroceryListEditing' = IF appMounted THEN FALSE
                                           ELSE isGroceryListEditing
                /\ UNCHANGED <<dbGrocery, groceryDirty>>
        /\ UNCHANGED <<sessionVars, recipes, groceryText, recipesSub,
                       grocerySub, recipesDirty, dbRecipes, nextId,
                       addedToasts, appends, deletes, calls, lastCall,
                       showAddModal, apiKey, auxVars, viewVars, edits, submits, lastSubmit>>
        /\ RenderApp(FALSE)

\* setDoc(..., { merge: true }) answers: the rest of handleSaveGroceryList
SaveResolve ==
    \E i \in DOMAIN saves, ok \in BOOLEAN :
        /\ saves' = RemoveAt(saves, i)
        /\ lastAnswer' = IF ok THEN "ok" ELSE "error"
        /\ IF ok
           THEN /\ dbGrocery' = [exists |-> TRUE, content |-> saves[i].content]
                /\ groceryDirty' = grocerySub
                /\ isGroceryListEditing' = IF appMounted THEN FALSE
                                           ELSE isGroceryListEditing
                /\ showActionToast("Grocery List Saved!")
           ELSE /\ showActionToast("Failed to save grocery list. Please check console.")
                /\ UNCHANGED <<dbGrocery, groceryDirty, isGroceryListEditing>>
        /\ UNCHANGED <<sessionVars, recipes, groceryText, recipesSub,
                       grocerySub, recipesDirty, dbRecipes, nextId,
                       addedToasts, appends, deletes, calls, lastCall,
                       showAddModal, apiKey, auxVars, viewVars, edits, submits, lastSubmit>>
        /\ RenderApp(FALSE)

----------------------------------------------------------------------------
(* The application from page load *)

Init ==
    /\ fbInit \in BOOLEAN
    /\ appMounted = TRUE
    /\ authListener = fbInit
    /\ authUser \in BOOLEAN
    /\ authEvents = IF fbInit THEN <<authUser>> ELSE <<>>
    /\ signInFlight = 0
    /\ signInFailed = FALSE
    /\ isAuthReady = FALSE
    /\ recipes = <<>>
    /\ groceryText = ""
    /\ isGroceryListEditing = FALSE
    /\ recipesSub = FALSE
    /\ grocerySub = FALSE
    /\ recipeListeners = IF recipesSub THEN 1 ELSE 0
    /\ groceryListeners = IF grocerySub THEN 1 ELSE 0
    /\ recipesDirty = FALSE
    /\ groceryDirty = FALSE
    /\ dbRecipes \in InitialCollections
    /\ dbGrocery = [exists |-> FALSE, content |-> ""]
    /\ nextId = Len(dbRecipes) + 1
    /\ toastMessage = ""
    /\ showToast = FALSE
    /\ toastTimers = <<>>
    /\ addedToasts = <<>>
    /\ appends = <<>>
    /\ deletes = <<>>
    /\ saves = <<>>
    /\ calls = 0
    /\ lastCall = "none"
    /\ lastAnswer = "none"
    /\ remoteDeletes = <<>>
    /\ strictPhase = "none"
    /\ showAddModal = FALSE
    /\ apiKey = TRUE
    /\ showVideoModal = FALSE
    /\ currentVideoId = <<>>
    /\ searchTerm = <<>>
    /\ currentView = "home"
    /\ youtubeUrl = <<>>
    /\ thumbnailUrl = <<>>
    /\ videoTitle = <<>>
    /\ selectedTags = <<>>
    /\ isValidUrl = FALSE
    /\ isLoadingThumbnail = FALSE
    /\ isFetchingTitle = FALSE
    /\ handler = {}
    /\ fetches = {}
    /\ edits = 0
    /\ sinceEdit = 0
    /\ burstEdits = 0
    /\ burstFetches = <<>>
    /\ submits = 0
    /\ lastSubmit = "none"

Next ==
    \/ AuthStateChanged
    \/ SignInResolve
    \/ UnmountApp
    \/ RecipesSnapshot
    \/ GrocerySnapshot
    \/ RecipesSnapshotError
    \/ GrocerySnapshotError
    \/ AddRecipeCall
    \/ DeleteRecipeCall
    \/ SaveGroceryCall
    \/ AppendResolve
    \/ DeleteQueryResolve
    \/ DeleteResolve
    \/ SaveResolve
    \/ ShowAddedToast
    \/ ToastTimerFire
    \/ Tick

Spec ==
    Init /\ [][Next]_vars

----------------------------------------------------------------------------
(* The page load of a development build: React.StrictMode runs the        *)
(* cleanups of the effects right after the mount and then the effects     *)
(* again, the state being kept                                            *)

\* what the simulated remount leaves alone
StrictFrame ==
    UNCHANGED <<fbInit, appMounted, authUser, signInFlight, isAuthReady,
                signInFailed, dataVars, toastVars, opVars, showAddModal,
                apiKey, viewVars, remoteDeletes, recipeListeners,
                groceryListeners, modalVars, modalHist>>

\* the cleanups: unsubscribeAuth(); the subscription effects returned at
\* their isAuthReady test and have no cleanup
StrictCleanup ==
    /\ appMounted
    /\ strictPhase = "first"
    /\ strictPhase' = "cleaned"
    /\ authListener' = FALSE
    /\ authEvents' = <<>>
    /\ StrictFrame

\* the effects again: onAuthStateChanged attaches a new listener, which is
\* owed the current user; the subscription effects return as before
StrictSetup ==
    /\ appMounted
    /\ strictPhase = "cleaned"
    /\ ~isAuthReady
    /\ strictPhase' = "none"
    /\ authListener' = fbInit
    /\ authEvents' = IF fbInit THEN <<authUser>> ELSE <<>>
    /\ StrictFrame

\* App as first mounted: the listener is attached and has not been
\* notified yet
InitStrict ==
    /\ fbInit \in BOOLEAN
    /\ appMounted = TRUE
    /\ authListener = fbInit
    /\ authUser \in BOOLEAN
    /\ authEvents = <<>>
    /\ signInFlight = 0
    /\ signInFailed = FALSE
    /\ isAuthReady = FALSE
    /\ recipes = <<>>
    /\ groceryText = ""
    /\ isGroceryListEditing = FALSE
    /\ recipesSub = FALSE
    /\ grocerySub = FALSE
    /\ recipeListeners = IF recipesSub THEN 1 ELSE 0
    /\ groceryListeners = IF grocerySub THEN 1 ELSE 0
    /\ recipesDirty = FALSE
    /\ groceryDirty = FALSE
    /\ dbRecipes \in InitialCollections
    /\ dbGrocery = [exists |-> FALSE, content |-> ""]
    /\ nextId = Len(dbRecipes) + 1
    /\ toastMessage = ""
    /\ showToast = FALSE
    /\ toastTimers = <<>>
    /\ addedToasts = <<>>
    /\ appends = <<>>
    /\ deletes = <<>>
    /\ saves = <<>>
    /\ calls = 0
    /\ lastCall = "none"
    /\ lastAnswer = "none"
    /\ remoteDeletes = <<>>
    /\ strictPhase = "first"
    /\ showAddModal = FALSE
    /\ apiKey = TRUE
    /\ showVideoModal = FALSE
    /\ currentVideoId = <<>>
    /\ searchTerm = <<>>
    /\ currentView = "home"
    /\ youtubeUrl = <<>>
    /\ thumbnailUrl = <<>>
    /\ videoTitle = <<>>
    /\ selectedTags = <<>>
    /\ isValidUrl = FALSE
    /\ isLoadingThumbnail = FALSE
    /\ isFetchingTitle = FALSE
    /\ handler = {}
    /\ fetches = {}
    /\ edits = 0
    /\ sinceEdit = 0
    /\ burstEdits = 0
    /\ burstFetches = <<>>
    /\ submits = 0
    /\ lastSubmit = "none"

NextStrict ==
    \/ StrictCleanup
    \/ StrictSetup
    \/ AuthStateChanged
    \/ SignInResolve
    \/ UnmountApp
    \/ RecipesSnapshot
    \/ GrocerySnapshot
    \/ RecipesSnapshotError
    \/ GrocerySnapshotError
    \/ ToastTimerFire
    \/ Tick

SpecStrict ==
    InitStrict /\ [][NextStrict]_vars

----------------------------------------------------------------------------
(* The tag checkboxes of the dialog, for a draft whose URL is resolved *)

\* a toggle that only ever adds
handleTagChangeAddOnly(prevTags, tag) ==
    Append(prevTags, tag)

\* the updater of handleTagChange: remove the tag if present, else append
handleTagChange(prevTags, tag) ==
    IF \E i \in DOMAIN prevTags : prevTags[i] = tag
    THEN SelectSeq(prevTags, LAMBDA t : t # tag)
    ELSE Append(prevTags, tag)

\* the checkboxes that are clicked: first, middle and fourth category
TagChoices ==
    {1, 3, 4}

\* onChange of the checkbox of one category
ToggleTag ==
    \E c \in TagChoices :
        /\ showAddModal
        /\ selectedTags' = handleTagChange(selectedTags, categories[c])
        /\ UNCHANGED <<youtubeUrl, thumbnailUrl, videoTitle, isValidUrl,
                       isLoadingThumbnail, isFetchingTitle, handler, fetches>>
        /\ UNCHANGED <<sessionVars, dataVars, toastVars, opVars, showAddModal,
                       apiKey, auxVars, viewVars, modalHist>>

\* a running application whose dialog is open on a link that has been
\* resolved, no tag selected yet
InitTags ==
    /\ fbInit = TRUE
    /\ appMounted = TRUE
    /\ authListener = TRUE
    /\ isAuthReady = TRUE
    /\ authUser = TRUE
    /\ authEvents = <<>>
    /\ signInFlight = 0
    /\ signInFailed = FALSE
    /\ recipes = <<>>
    /\ groceryText = ""
    /\ isGroceryListEditing = FALSE
    /\ recipesSub = TRUE
    /\ grocerySub = TRUE
    /\ recipeListeners = IF recipesSub THEN 1 ELSE 0
    /\ groceryListeners = IF grocerySub THEN 1 ELSE 0
    /\ recipesDirty = FALSE
    /\ groceryDirty = FALSE
    /\ dbRecipes = <<>>
    /\ dbGrocery = [exists |-> FALSE, content |-> ""]
    /\ nextId = 1
    /\ toastMessage = ""
    /\ showToast = FALSE
    /\ toastTimers = <<>>
    /\ addedToasts = <<>>
    /\ appends = <<>>
    /\ deletes = <<>>
    /\ saves = <<>>
    /\ calls = 0
    /\ lastCall = "none"
    /\ lastAnswer = "none"
    /\ remoteDeletes = <<>>
    /\ strictPhase = "none"
    /\ showAddModal = TRUE
    /\ apiKey = TRUE
    /\ showVideoModal = FALSE
    /\ currentVideoId = <<>>
    /\ searchTerm = <<>>
    /\ currentView = "home"
    /\ youtubeUrl = UrlShortA
    /\ thumbnailUrl = ThumbA
    /\ videoTitle = ApiTitleA
    /\ selectedTags = <<>>
    /\ isValidUrl = TRUE
    /\ isLoadingThumbnail = FALSE
    /\ isFetchingTitle = FALSE
    /\ handler = {}
    /\ fetches = {}
    /\ edits = 1
    /\ sinceEdit = DebounceMs
    /\ burstEdits = 1
    /\ burstFetches = <<IdA>>
    /\ submits = 0
    /\ lastSubmit = "none"

NextTags ==
    \/ ToggleTag
    \/ Submit
    \/ AppendResolve
    \/ ShowAddedToast
    \/ ToastTimerFire
    \/ RecipesSnapshot
    \/ Tick

SpecTags ==
    InitTags /\ [][NextTags]_vars

\* the same dialog over a collection that may already hold the record of
\* the link typed, added by an earlier submission or by another session
InitResubmit ==
    /\ fbInit = TRUE
    /\ appMounted = TRUE
    /\ authListener = TRUE
    /\ isAuthReady = TRUE
    /\ authUser = TRUE
    /\ authEvents = <<>>
    /\ signInFlight = 0
    /\ signInFailed = FALSE
    /\ groceryText = ""
    /\ isGroceryListEditing = FALSE
    /\ recipesSub = TRUE
    /\ grocerySub = TRUE
    /\ recipeListeners = IF recipesSub THEN 1 ELSE 0
    /\ groceryListeners = IF grocerySub THEN 1 ELSE 0
    /\ recipesDirty = FALSE
    /\ groceryDirty = FALSE
    /\ dbRecipes \in InitialCollections
    /\ recipes = dbRecipes
    /\ dbGrocery = [exists |-> FALSE, content |-> ""]
    /\ nextId = Len(dbRecipes) + 1
    /\ toastMessage = ""
    /\ showToast = FALSE
    /\ toastTimers = <<>>
    /\ addedToasts = <<>>
    /\ appends = <<>>
    /\ deletes = <<>>
    /\ saves = <<>>
    /\ calls = 0
    /\ lastCall = "none"
    /\ lastAnswer = "none"
    /\ remoteDeletes = <<>>
    /\ strictPhase = "none"
    /\ showAddModal = TRUE
    /\ apiKey = TRUE
    /\ showVideoModal = FALSE
    /\ currentVideoId = <<>>
    /\ searchTerm = <<>>
    /\ currentView = "home"
    /\ youtubeUrl = UrlShortA
    /\ thumbnailUrl = ThumbA
    /\ videoTitle = ApiTitleA
    /\ selectedTags = <<>>
    /\ isValidUrl = TRUE
    /\ isLoadingThumbnail = FALSE
    /\ isFetchingTitle = FALSE
    /\ handler = {}
    /\ fetches = {}
    /\ edits = 1
    /\ sinceEdit = DebounceMs
    /\ burstEdits = 1
    /\ burstFetches = <<IdA>>
    /\ submits = 0
    /\ lastSubmit = "none"

SpecResubmit ==
    InitResubmit /\ [][NextTags]_vars

----------------------------------------------------------------------------
(* The home view: the search filter and the category sections *)

UpperCase ==
    <<"A", "B", "C", "D", "E", "F", "G", "H", "I", "J", "K", "L", "M",
    "N", "O", "P", "Q", "R", "S", "T", "U", "V", "W", "X", "Y", "Z">>
LowerCase ==
    <<"a", "b", "c", "d", "e", "f", "g", "h", "i", "j", "k", "l", "m",
    "n", "o", "p", "q", "r", "s", "t", "u", "v", "w", "x", "y", "z">>

\* String.prototype.toLowerCase on the characters used here
toLowerCase(str) ==
    [k \in DOMAIN str |->
        IF \E n \in DOMAIN UpperCase : UpperCase[n] = str[k]
        THEN LowerCase[CHOOSE n \in DOMAIN UpperCase : UpperCase[n] = str[k]]
        ELSE str[k]]

\* String.prototype.includes
includes(str, searchString) ==
    \E k \in 1..(Len(str) - Len(searchString) + 1) :
        SubSeq(str, k, k + Len(searchString) - 1) = searchString

\* a filter that lowers the title only
filteredRecipesTitleLowered ==
    SelectSeq(recipes,
              LAMBDA recipe : includes(toLowerCase(recipe.title), searchTerm))

\* filteredRecipes of a render
filteredRecipes ==
    SelectSeq(recipes,
              LAMBDA recipe : includes(toLowerCase(recipe.title),
                                       toLowerCase(searchTerm)))

\* the cards of one section: filteredRecipes.filter(recipe =>
\* recipe.tags.includes(category))
SectionCards(category) ==
    SelectSeq(filteredRecipes,
              LAMBDA recipe : \E t \in DOMAIN recipe.tags :
                                 recipe.tags[t] = category)

\* categories.map(...): one section for each category, in that order
Sections ==
    [c \in DOMAIN categories |-> SectionCards(categories[c])]

\* the home view is rendered
HomeShown ==
    appMounted /\ isAuthReady /\ currentView = "home"

----------------------------------------------------------------------------
(* Deleting from the video dialog, in a session that is ready *)

\* clicks of the delete button of the video dialog
MaxDeleteClicks ==
    2

\* clicking a card of a section calls openVideoModal(recipe.videoId)
OpenVideoModal ==
    \E c \in DOMAIN Sections : \E i \in DOMAIN Sections[c] :
        /\ HomeShown
        /\ ~showVideoModal
        /\ ~showAddModal
        /\ currentVideoId' = Sections[c][i].videoId
        /\ showVideoModal' = TRUE
        /\ UNCHANGED <<sessionVars, dataVars, toastVars, opVars, showAddModal,
                       apiKey, auxVars, searchTerm, currentView, edits, submits,
                       lastSubmit>>
        /\ RenderApp(FALSE)

\* the close button of the video dialog: closeVideoModal
CloseVideoModal ==
    /\ showVideoModal
    /\ currentVideoId' = <<>>
    /\ showVideoModal' = FALSE
    /\ UNCHANGED <<sessionVars, dataVars, toastVars, opVars, showAddModal,
                   apiKey, auxVars, searchTerm, currentView, edits, submits,
                   lastSubmit>>
    /\ RenderApp(FALSE)

\* handleDeleteClick of the video dialog: onDelete(videoId); onClose()
DeleteClick ==
    /\ showVideoModal
    /\ calls < MaxDeleteClicks
    /\ handleDeleteRecipe(currentVideoId)
    /\ currentVideoId' = <<>>
    /\ showVideoModal' = FALSE
    /\ UNCHANGED <<sessionVars, dataVars, addedToasts, appends, saves,
                   lastAnswer, showAddModal, apiKey, auxVars, searchTerm, currentView,
                   edits, submits, lastSubmit>>
    /\ RenderApp(FALSE)

\* a stored record
Doc(id, videoId, title, tags) ==
    [id |-> id, youtubeUrl |-> IF videoId = IdA THEN UrlShortA ELSE UrlShortsB,
     videoId |-> videoId, thumbnailUrl |-> getYoutubeThumbnailUrl(videoId),
     title |-> title, tags |-> tags]

\* the shared collection when the session starts: one video stored twice
\* (nothing stops a second append of a link) and another video
DeleteCollections ==
    {<<Doc(1, IdA, ApiTitleA, categories), Doc(2, IdB, ApiTitleB, <<"Dinner">>)>>,
     <<Doc(1, IdA, ApiTitleA, categories), Doc(2, IdA, ApiTitleA, <<"Lunch">>),
       Doc(3, IdB, ApiTitleB, <<"Dinner">>)>>}

\* the session is signed in and ready, its listeners attached and owed
\* their first snapshots
InitDelete ==
    /\ fbInit = TRUE
    /\ appMounted = TRUE
    /\ authListener = TRUE
    /\ isAuthReady = TRUE
    /\ authUser = TRUE
    /\ authEvents = <<>>
    /\ signInFlight = 0
    /\ signInFailed = FALSE
    /\ recipes = <<>>
    /\ groceryText = ""
    /\ isGroceryListEditing = FALSE
    /\ recipesSub = TRUE
    /\ grocerySub = TRUE
    /\ recipeListeners = IF recipesSub THEN 1 ELSE 0
    /\ groceryListeners = IF grocerySub THEN 1 ELSE 0
    /\ recipesDirty = TRUE
    /\ groceryDirty = TRUE
    /\ dbRecipes \in DeleteCollections
    /\ dbGrocery = [exists |-> FALSE, content |-> ""]
    /\ nextId = Len(dbRecipes) + 1
    /\ toastMessage = ""
    /\ showToast = FALSE
    /\ toastTimers = <<>>
    /\ addedToasts = <<>>
    /\ appends = <<>>
    /\ deletes = <<>>
    /\ saves = <<>>
    /\ calls = 0
    /\ lastCall = "none"
    /\ lastAnswer = "none"
    /\ remoteDeletes = <<>>
    /\ strictPhase = "none"
    /\ showAddModal = FALSE
    /\ apiKey = TRUE
    /\ showVideoModal = FALSE
    /\ currentVideoId = <<>>
    /\ searchTerm = <<>>
    /\ currentView = "home"
    /\ youtubeUrl = <<>>
    /\ thumbnailUrl = <<>>
    /\ videoTitle = <<>>
    /\ selectedTags = <<>>
    /\ isValidUrl = FALSE
    /\ isLoadingThumbnail = FALSE
    /\ isFetchingTitle = FALSE
    /\ handler = {}
    /\ fetches = {}
    /\ edits = 0
    /\ sinceEdit = 0
    /\ burstEdits = 0
    /\ burstFetches = <<>>
    /\ submits = 0
    /\ lastSubmit = "none"

NextDelete ==
    \/ RecipesSnapshot
    \/ GrocerySnapshot
    \/ OpenVideoModal
    \/ CloseVideoModal
    \/ DeleteClick
    \/ DeleteQueryResolve
    \/ DeleteResolve
    \/ ToastTimerFire
    \/ Tick

SpecDelete ==
    InitDelete /\ [][NextDelete]_vars

----------------------------------------------------------------------------
(* Two sessions on the shared collection: this one and another one running *)
(* the same handleDeleteRecipe, of which only the backend calls are seen   *)

\* delete calls of the other session awaiting an answer at one time
MaxRemoteDeletes ==
    1

\* what the steps of the other session leave alone: all of this session
\* but the shared collection
RemoteFrame ==
    UNCHANGED <<sessionVars, recipes, groceryText, isGroceryListEditing,
                recipesSub, grocerySub, groceryDirty, dbGrocery, nextId,
                toastVars, opVars, showAddModal, apiKey, viewVars,
                recipeListeners, groceryListeners, strictPhase, modalVars,
                modalHist>>

\* the other session calls handleDeleteRecipe (its session is ready)
RemoteDeleteCall ==
    \E videoIdToDelete \in SampleIds :
        /\ Len(remoteDeletes) < MaxRemoteDeletes
        /\ remoteDeletes' = Append(remoteDeletes,
                                   [videoId |-> videoIdToDelete,
                                    stage |-> "getDocs", docId |-> 0])
        /\ UNCHANGED <<dbRecipes, recipesDirty>>
        /\ RemoteFrame

\* getDocs answers the other session: it goes on to deleteDoc(docs[0]) or
\* ends with its own 'Recipe not found!'
RemoteDeleteQueryResolve ==
    \E i \in DOMAIN remoteDeletes :
        /\ remoteDeletes[i].stage = "getDocs"
        /\ IF Matching(remoteDeletes[i].videoId) # {}
           THEN \E m \in Matching(remoteDeletes[i].videoId) :
                    remoteDeletes' =
                        [remoteDeletes EXCEPT ![i].stage = "deleteDoc",
                                              ![i].docId = dbRecipes[m].id]
           ELSE remoteDeletes' = RemoveAt(remoteDeletes, i)
        /\ UNCHANGED <<dbRecipes, recipesDirty>>
        /\ RemoteFrame

\* deleteDoc answers the other session, which reports 'Recipe Deleted!' on
\* its own screen; deleting a document that is gone succeeds too
RemoteDeleteResolve ==
    \E i \in DOMAIN remoteDeletes :
        /\ remoteDeletes[i].stage = "deleteDoc"
        /\ remoteDeletes' = RemoveAt(remoteDeletes, i)
        /\ dbRecipes' = WithoutDoc(remoteDeletes[i].docId)
        /\ recipesDirty' = IF WithoutDoc(remoteDeletes[i].docId) # dbRecipes
                           THEN recipesSub ELSE recipesDirty
        /\ RemoteFrame

NextSessions ==
    \/ RecipesSnapshot
    \/ GrocerySnapshot
    \/ DeleteRecipeCall
    \/ DeleteQueryResolve
    \/ DeleteResolve
    \/ RemoteDeleteCall
    \/ RemoteDeleteQueryResolve
    \/ RemoteDeleteResolve
    \/ ToastTimerFire
    \/ Tick

SpecSessions ==
    InitDelete /\ [][NextSessions]_vars

----------------------------------------------------------------------------
(* The grocery list and the three mutation handlers in a running session *)

\* what is typed into the textarea
GroceryTexts ==
    {"", "milk", "milk, eggs"}

\* the grocery document when the session starts: missing, or stored by an
\* earlier save (of an empty text too)
StoredGroceryLists ==
    {[exists |-> FALSE, content |-> ""], [exists |-> TRUE, content |-> ""],
     [exists |-> TRUE, content |-> "milk"]}

\* the header button: setCurrentView('groceryList')
ShowGroceryList ==
    /\ appMounted
    /\ currentView # "groceryList"
    /\ currentView' = "groceryList"
    /\ UNCHANGED <<sessionVars, dataVars, toastVars, opVars, showAddModal,
                   apiKey, auxVars, showVideoModal, currentVideoId, searchTerm, edits,
                   submits, lastSubmit>>
    /\ RenderApp(FALSE)

\* a grocery view that keeps the text and the edit mode in its own state,
\* lost when the view is left
ShowHomeLocalState ==
    /\ appMounted
    /\ currentView # "home"
    /\ currentView' = "home"
    /\ groceryText' = ""
    /\ isGroceryListEditing' = FALSE
    /\ UNCHANGED <<sessionVars, recipes, recipesSub, grocerySub, recipesDirty,
                   groceryDirty, dbRecipes, dbGrocery, nextId, toastVars,
                   opVars, showAddModal, apiKey, auxVars, showVideoModal,
                   currentVideoId, searchTerm, edits, submits, lastSubmit>>
    /\ RenderApp(FALSE)

\* the header title: setCurrentView('home')
ShowHome ==
    /\ appMounted
    /\ currentView # "home"
    /\ currentView' = "home"
    /\ UNCHANGED <<sessionVars, dataVars, toastVars, opVars, showAddModal,
                   apiKey, auxVars, showVideoModal, currentVideoId, searchTerm, edits,
                   submits, lastSubmit>>
    /\ RenderApp(FALSE)

\* GroceryList is rendered: isAuthReady && currentView === 'groceryList'
GroceryListShown ==
    appMounted /\ isAuthReady /\ currentView = "groceryList"

\* the 'Edit Grocery List' button: setIsEditing(true)
StartEditing ==
    /\ GroceryListShown
    /\ ~isGroceryListEditing
    /\ isGroceryListEditing' = TRUE
    /\ UNCHANGED <<sessionVars, recipes, groceryText, recipesSub, grocerySub,
                   recipesDirty, groceryDirty, dbRecipes, dbGrocery, nextId,
                   toastVars, opVars, showAddModal, apiKey, auxVars, viewVars, edits,
                   submits, lastSubmit>>
    /\ RenderApp(FALSE)

\* onChange of the textarea, which is readOnly unless editing
TypeGrocery ==
    \E text \in GroceryTexts :
        /\ GroceryListShown
        /\ isGroceryListEditing
        /\ text # groceryText
        /\ groceryText' = text
        /\ UNCHANGED <<sessionVars, recipes, isGroceryListEditing, recipesSub,
                       grocerySub, recipesDirty, groceryDirty, dbRecipes,
                       dbGrocery, nextId, toastVars, opVars, showAddModal,
                       apiKey, auxVars, viewVars, edits, submits, lastSubmit>>
        /\ RenderApp(FALSE)

\* a session before or after setIsAuthReady(true); when ready its listeners
\* are attached and owed their first snapshots
InitData ==
    /\ fbInit = TRUE
    /\ appMounted = TRUE
    /\ authListener = TRUE
    /\ isAuthReady \in BOOLEAN
    /\ authUser = isAuthReady
    /\ authEvents = IF isAuthReady THEN <<>> ELSE <<FALSE>>
    /\ signInFlight = 0
    /\ signInFailed = FALSE
    /\ recipes = <<>>
    /\ groceryText = ""
    /\ isGroceryListEditing = FALSE
    /\ recipesSub = isAuthReady
    /\ grocerySub = isAuthReady
    /\ recipeListeners = IF recipesSub THEN 1 ELSE 0
    /\ groceryListeners = IF grocerySub THEN 1 ELSE 0
    /\ recipesDirty = isAuthReady
    /\ groceryDirty = isAuthReady
    /\ dbRecipes \in InitialCollections
    /\ dbGrocery \in StoredGroceryLists
    /\ nextId = Len(dbRecipes) + 1
    /\ toastMessage = ""
    /\ showToast = FALSE
    /\ toastTimers = <<>>
    /\ addedToasts = <<>>
    /\ appends = <<>>
    /\ deletes = <<>>
    /\ saves = <<>>
    /\ calls = 0
    /\ lastCall = "none"
    /\ lastAnswer = "none"
    /\ remoteDeletes = <<>>
    /\ strictPhase = "none"
    /\ showAddModal = FALSE
    /\ apiKey = TRUE
    /\ showVideoModal = FALSE
    /\ currentVideoId = <<>>
    /\ searchTerm = <<>>
    /\ currentView = "home"
    /\ youtubeUrl = <<>>
    /\ thumbnailUrl = <<>>
    /\ videoTitle = <<>>
    /\ selectedTags = <<>>
    /\ isValidUrl = FALSE
    /\ isLoadingThumbnail = FALSE
    /\ isFetchingTitle = FALSE
    /\ handler = {}
    /\ fetches = {}
    /\ edits = 0
    /\ sinceEdit = 0
    /\ burstEdits = 0
    /\ burstFetches = <<>>
    /\ submits = 0
    /\ lastSubmit = "none"

NextData ==
    \/ RecipesSnapshot
    \/ GrocerySnapshot
    \/ ShowGroceryList
    \/ ShowHome
    \/ StartEditing
    \/ TypeGrocery
    \/ AddRecipeCall
    \/ DeleteRecipeCall
    \/ SaveGroceryCall
    \/ AppendResolve
    \/ DeleteQueryResolve
    \/ DeleteResolve
    \/ SaveResolve
    \/ ShowAddedToast
    \/ ToastTimerFire
    \/ Tick

SpecData ==
    InitData /\ [][NextData]_vars

----------------------------------------------------------------------------
(* The identifier extracted from a pasted link *)

\* what a link starts with
SchemeHttps ==
    <<"h", "t", "t", "p", "s", ":", "/", "/">>
SchemeWww ==
    <<"h", "t", "t", "p", "s", ":", "/", "/", "w", "w", "w", ".">>
SchemeMobile ==
    <<"h", "t", "t", "p", "s", ":", "/", "/", "m", ".">>

UrlSchemes ==
    {<<>>, SchemeHttps, SchemeWww, SchemeMobile}

\* the four forms of a link to a video: short, watch, embed, shorts
FormShort ==
    <<"y", "o", "u", "t", "u", ".", "b", "e", "/">>
FormWatch ==
    <<"y", "o", "u", "t", "u", "b", "e", ".", "c", "o", "m", "/", "w",
    "a", "t", "c", "h", "?", "v", "=">>
FormEmbed ==
    <<"y", "o", "u", "t", "u", "b", "e", ".", "c", "o", "m", "/", "e",
    "m", "b", "e", "d", "/">>
FormShorts ==
    <<"y", "o", "u", "t", "u", "b", "e", ".", "c", "o", "m", "/", "s",
    "h", "o", "r", "t", "s", "/">>

UrlForms ==
    {FormShort, FormWatch, FormEmbed, FormShorts}

\* what may follow the identifier
SuffixQuery ==
    <<"?", "t", "=", "9">>
SuffixParam ==
    <<"&", "t", "=", "9">>
SuffixSlash ==
    <<"/">>

UrlSuffixes ==
    {<<>>, SuffixQuery, SuffixParam, SuffixSlash}

\* a link of one form to one video
MakeUrl(scheme, form, videoId, suffix) ==
    scheme \o form \o videoId \o suffix

\* a string both patterns match, with different tokens
UrlBothPatterns ==
    FormShorts \o IdB \o <<"?">> \o LitVEq \o IdA

\* a short link whose token has fewer than 11 characters
UrlTooShort ==
    <<"h", "t", "t", "p", "s", ":", "/", "/", "y", "o", "u", "t", "u",
    ".", "b", "e", "/", "s", "h", "o", "r", "t">>

\* the strings pasted into the URL field
PastedUrls ==
    {MakeUrl(scheme, form, videoId, suffix) :
        scheme \in UrlSchemes, form \in UrlForms, videoId \in {IdA, IdB},
        suffix \in UrlSuffixes}
      \cup {UrlBothPatterns, UrlTooShort, UrlNotAUrl}

\* a running application whose dialog has just been opened and a string
\* pasted into its URL field: the debounce timeout is pending
InitExtract ==
    /\ fbInit = TRUE
    /\ appMounted = TRUE
    /\ authListener = TRUE
    /\ isAuthReady = TRUE
    /\ authUser = TRUE
    /\ authEvents = <<>>
    /\ signInFlight = 0
    /\ signInFailed = FALSE
    /\ recipes = <<>>
    /\ groceryText = ""
    /\ isGroceryListEditing = FALSE
    /\ recipesSub = TRUE
    /\ grocerySub = TRUE
    /\ recipeListeners = IF recipesSub THEN 1 ELSE 0
    /\ groceryListeners = IF grocerySub THEN 1 ELSE 0
    /\ recipesDirty = FALSE
    /\ groceryDirty = FALSE
    /\ dbRecipes = <<>>
    /\ dbGrocery = [exists |-> FALSE, content |-> ""]
    /\ nextId = 1
    /\ toastMessage = ""
    /\ showToast = FALSE
    /\ toastTimers = <<>>
    /\ addedToasts = <<>>
    /\ appends = <<>>
    /\ deletes = <<>>
    /\ saves = <<>>
    /\ calls = 0
    /\ lastCall = "none"
    /\ lastAnswer = "none"
    /\ remoteDeletes = <<>>
    /\ strictPhase = "none"
    /\ showAddModal = TRUE
    /\ apiKey \in BOOLEAN
    /\ showVideoModal = FALSE
    /\ currentVideoId = <<>>
    /\ searchTerm = <<>>
    /\ currentView = "home"
    /\ youtubeUrl \in PastedUrls
    /\ thumbnailUrl = <<>>
    /\ videoTitle = <<>>
    /\ selectedTags = <<>>
    /\ isValidUrl = FALSE
    /\ isLoadingThumbnail = TRUE
    /\ isFetchingTitle = TRUE
    /\ handler = {[url |-> youtubeUrl, left |-> DebounceMs, epoch |-> 1]}
    /\ fetches = {}
    /\ edits = 1
    /\ sinceEdit = 0
    /\ burstEdits = 1
    /\ burstFetches = <<>>
    /\ submits = 0
    /\ lastSubmit = "none"

NextExtract ==
    \/ DebounceFire
    \/ FetchResolve
    \/ Submit
    \/ AppendResolve
    \/ ShowAddedToast
    \/ ToastTimerFire
    \/ RecipesSnapshot
    \/ Tick

SpecExtract ==
    InitExtract /\ [][NextExtract]_vars

----------------------------------------------------------------------------
(* Browsing: the search field and the cards *)

\* what is typed into the search field
TermDa ==
    <<"d", "a">>
TermDosaUpper ==
    <<"D", "O", "S", "A">>
TermSal ==
    <<"s", "a", "l">>
TermNone ==
    <<"x", "y", "z">>

SearchTerms ==
    {<<>>, TermDa, TermDosaUpper, TermSal, TermNone}

\* three stored records: with all tags, with two, with one
BrowseDocs ==
    {Doc(1, IdA, ApiTitleA, categories),
     Doc(2, IdB, ApiTitleB, <<"Dinner", "Breakfast">>),
     Doc(3, IdA, TitleUntitled, <<"Lunch">>)}

\* the shared collection when the session starts: any of the records, in
\* any order
BrowseCollections ==
    {s \in UNION {[1..n -> BrowseDocs] : n \in 0..3} :
        \A i, j \in DOMAIN s : s[i] = s[j] => i = j}

\* onChange of the search field, which the header shows on the home view
SetSearchTerm ==
    \E term \in SearchTerms :
        /\ appMounted
        /\ currentView = "home"
        /\ ~showVideoModal
        /\ ~showAddModal
        /\ term # searchTerm
        /\ searchTerm' = term
        /\ UNCHANGED <<sessionVars, dataVars, toastVars, opVars, showAddModal,
                       apiKey, auxVars, showVideoModal, currentVideoId, currentView,
                       edits, submits, lastSubmit>>
        /\ RenderApp(FALSE)

\* the session is signed in and ready, its listeners attached and owed
\* their first snapshots
InitBrowse ==
    /\ fbInit = TRUE
    /\ appMounted = TRUE
    /\ authListener = TRUE
    /\ isAuthReady = TRUE
    /\ authUser = TRUE
    /\ authEvents = <<>>
    /\ signInFlight = 0
    /\ signInFailed = FALSE
    /\ recipes = <<>>
    /\ groceryText = ""
    /\ isGroceryListEditing = FALSE
    /\ recipesSub = TRUE
    /\ grocerySub = TRUE
    /\ recipeListeners = IF recipesSub THEN 1 ELSE 0
    /\ groceryListeners = IF grocerySub THEN 1 ELSE 0
    /\ recipesDirty = TRUE
    /\ groceryDirty = TRUE
    /\ dbRecipes \in BrowseCollections
    /\ dbGrocery = [exists |-> FALSE, content |-> ""]
    /\ nextId = 4
    /\ toastMessage = ""
    /\ showToast = FALSE
    /\ toastTimers = <<>>
    /\ addedToasts = <<>>
    /\ appends = <<>>
    /\ deletes = <<>>
    /\ saves = <<>>
    /\ calls = 0
    /\ lastCall = "none"
    /\ lastAnswer = "none"
    /\ remoteDeletes = <<>>
    /\ strictPhase = "none"
    /\ showAddModal = FALSE
    /\ apiKey = TRUE
    /\ showVideoModal = FALSE
    /\ currentVideoId = <<>>
    /\ searchTerm = <<>>
    /\ currentView = "home"
    /\ youtubeUrl = <<>>
    /\ thumbnailUrl = <<>>
    /\ videoTitle = <<>>
    /\ selectedTags = <<>>
    /\ isValidUrl = FALSE
    /\ isLoadingThumbnail = FALSE
    /\ isFetchingTitle = FALSE
    /\ handler = {}
    /\ fetches = {}
    /\ edits = 0
    /\ sinceEdit = 0
    /\ burstEdits = 0
    /\ burstFetches = <<>>
    /\ submits = 0
    /\ lastSubmit = "none"

NextBrowse ==
    \/ RecipesSnapshot
    \/ GrocerySnapshot
    \/ SetSearchTerm
    \/ OpenVideoModal
    \/ CloseVideoModal

SpecBrowse ==
    InitBrowse /\ [][NextBrowse]_vars

----------------------------------------------------------------------------
(* Properties of the add-recipe dialog, under SpecModal *)

\* C1: edits of the URL field made less than 500 ms apart cause at most one
\* title-fetch attempt, started only when the burst is over, and it is for
\* the identifier extracted from the final value of the field.
C1_DebounceOneFetch ==
    /\ Len(burstFetches) <= 1
    /\ sinceEdit < DebounceMs => burstFetches = <<>>
    /\ burstFetches # <<>> =>
          burstFetches[1] = getYoutubeVideoId(youtubeUrl)

\* C1 witness: a burst of two or more rapid edits has ended in one fetch
C1_Witness ==
    /\ burstEdits >= 2
    /\ Len(burstFetches) = 1
    /\ burstFetches[1] = IdB

\* a step in which a title fetch resolves in the mounted dialog
FetchResolveStep ==
    /\ showAddModal /\ showAddModal'
    /\ Cardinality(fetches \ fetches') = 1
    /\ fetches' \subseteq fetches
    /\ UNCHANGED <<youtubeUrl, thumbnailUrl, isValidUrl, handler, edits>>

\* C2 (as claimed): when a fetch resolves that was started for an earlier
\* value of the field than the current one, the displayed title and the
\* fetching flag are left as they are.
C2_StaleFetchDiscarded ==
    [][ FetchResolveStep =>
          \A f \in fetches \ fetches' :
             f.epoch # edits => UNCHANGED <<videoTitle, isFetchingTitle>> ]_vars

\* C3 (as claimed): with no metadata API key, once the resolver has run for
\* a URL with an identifier the dialog is valid, shows the 'key missing'
\* title and has its submit control enabled.
C3_KeyMissingOnlyDegradesTitle ==
    ( /\ showAddModal
      /\ ~apiKey
      /\ getYoutubeVideoId(youtubeUrl) # <<>>
      /\ handler = {} )
    => ( /\ isValidUrl
         /\ videoTitle = TitleKeyMissing
         /\ ~SubmitDisabled )

\* a step that edits the URL field to a string with no identifier
InvalidEditStep ==
    /\ edits' # edits
    /\ getYoutubeVideoId(youtubeUrl') = <<>>

\* a step in which the debounce timeout of a string with no identifier fires
InvalidFireStep ==
    /\ showAddModal /\ showAddModal'
    /\ handler # {} /\ handler' = {}
    /\ getYoutubeVideoId(youtubeUrl) = <<>>

\* C7 (as claimed): an edit to an empty or non-matching string resets the
\* thumbnail, the title, the validity flag and both loading flags in the
\* step of the edit.
C7_InvalidResetImmediately ==
    [][ InvalidEditStep =>
          /\ thumbnailUrl' = <<>>
          /\ videoTitle' = <<>>
          /\ ~isValidUrl'
          /\ ~isLoadingThumbnail'
          /\ ~isFetchingTitle' ]_vars

\* C7 (amended): an edit to an empty or non-matching string clears the title
\* in the step of the edit and sets both loading flags to whether the field
\* is non-empty, leaving the thumbnail and the validity flag as they were;
\* the step in which the debounce timeout fires resets all five.
C7_InvalidResetDebounced ==
    [][ /\ InvalidEditStep =>
             /\ videoTitle' = <<>>
             /\ isLoadingThumbnail' = (youtubeUrl' # <<>>)
             /\ isFetchingTitle' = (youtubeUrl' # <<>>)
             /\ UNCHANGED <<thumbnailUrl, isValidUrl>>
        /\ InvalidFireStep =>
             /\ thumbnailUrl' = <<>>
             /\ videoTitle' = <<>>
             /\ ~isValidUrl'
             /\ ~isLoadingThumbnail'
             /\ ~isFetchingTitle' ]_vars

\* C7 witness: the field holds a non-matching string whose timeout has not
\* fired, and the thumbnail and validity of the earlier value are still set
C7_Witness ==
    /\ showAddModal
    /\ youtubeUrl = UrlNotAUrl
    /\ handler # {}
    /\ isValidUrl
    /\ thumbnailUrl = ThumbA
    /\ isLoadingThumbnail

\* C8 (as claimed): whenever the URL field matches neither pattern the
\* submit control is disabled.
C8_InvalidUrlSubmitDisabled ==
    (showAddModal /\ getYoutubeVideoId(youtubeUrl) = <<>>) => SubmitDisabled

\* C9 (as claimed): for a string with no identifier, from the firing of its
\* debounce timeout to the next edit the validity flag is false and the
\* thumbnail and title are empty.
C9_InvalidStaysReset ==
    ( /\ showAddModal
      /\ getYoutubeVideoId(youtubeUrl) = <<>>
      /\ handler = {} )
    => ( /\ ~isValidUrl
         /\ thumbnailUrl = <<>>
         /\ videoTitle = <<>> )

\* C10: a submission calls the append mutation exactly when the validity
\* flag is set and an identifier is extracted from the current content of
\* the URL field, with that identifier in the record; otherwise it appends
\* nothing and the dialog stays open.
C10_SubmitPrecondition ==
    [][ submits' # submits =>
          IF isValidUrl /\ getYoutubeVideoId(youtubeUrl) # <<>>
          THEN /\ calls' = calls + 1
               /\ lastCall' = "handleAddRecipe"
               /\ isAuthReady =>
                    /\ Len(appends') = Len(appends) + 1
                    /\ appends'[Len(appends')].rec.videoId
                         = getYoutubeVideoId(youtubeUrl)
          ELSE /\ UNCHANGED <<calls, appends, dbRecipes>>
               /\ showAddModal' ]_vars

\* C10 witness: a submission was made with a field holding no identifier,
\* nothing was appended and the dialog is open
C10_Witness ==
    /\ lastSubmit = "rejected"
    /\ showAddModal
    /\ getYoutubeVideoId(youtubeUrl) = <<>>
    /\ calls = 0

----------------------------------------------------------------------------
(* Properties of the session and of the handlers, under Spec *)

\* C4 (as claimed): a subscription is open only when the backend has a
\* signed-in user, never after a failed sign-in, and none is open once App
\* is torn down.
C4_SubscriptionsOnlyAfterSignIn ==
    /\ (recipesSub \/ grocerySub) => (authUser /\ ~signInFailed)
    /\ ~appMounted => (~recipesSub /\ ~grocerySub)

\* C5 (as claimed): once anonymous sign-in has failed, the session-ready
\* flag is not set.
C5_FailedSignInNeverReady ==
    signInFailed => ~isAuthReady

\* the 'loading' toast of each handler
LoadingToast(name) ==
    IF name = "handleAddRecipe"
    THEN "Application is loading. Please wait for authentication."
    ELSE IF name = "handleDeleteRecipe"
    THEN "Application is loading. Cannot delete."
    ELSE "Application is loading. Cannot save."

\* C6: a handler invoked while the session-ready flag is false starts no
\* backend call, leaves the collection and the document unchanged and shows
\* its own 'loading' toast.
C6_NotReadyNoOp ==
    [][ (calls' # calls /\ ~isAuthReady) =>
          /\ UNCHANGED <<appends, deletes, saves, dbRecipes, dbGrocery>>
          /\ showToast'
          /\ toastMessage' = LoadingToast(lastCall') ]_vars

\* C6 witness: delete was invoked before the session was ready and its
\* 'loading' toast is shown
C6_Witness ==
    /\ ~isAuthReady
    /\ lastCall = "handleDeleteRecipe"
    /\ showToast
    /\ toastMessage = "Application is loading. Cannot delete."
    /\ deletes = <<>>

----------------------------------------------------------------------------
(* Properties of the tag selection, under SpecTags *)

\* the tags of a record are a non-empty, duplicate-free subset of the five
\* categories
TagsWellFormed(tags) ==
    /\ tags # <<>>
    /\ \A i, j \in DOMAIN tags : tags[i] = tags[j] => i = j
    /\ \A i \in DOMAIN tags : \E c \in DOMAIN categories : tags[i] = categories[c]

\* C11: the tags of every record passed to append are the selected tags
\* when at least one is selected and the full list of the five categories
\* when none is; after any sequence of toggles they are a non-empty,
\* duplicate-free subset of the five categories.
C11_AppendedTags ==
    [][Len(appends') > Len(appends) =>
          LET tags == appends'[Len(appends')].rec.tags
          IN  /\ tags = IF selectedTags # <<>> THEN selectedTags
                         ELSE categories
              /\ TagsWellFormed(tags)]_vars

\* a record was passed to append after three toggles had left two tags
\* selected, in the order of selection
C11_Witness ==
    /\ appends # <<>>
    /\ appends[1].rec.tags = <<"Dinner", "Breakfast">>

----------------------------------------------------------------------------
(* Properties of delete-by-identifier, under SpecDelete *)

\* the records of the collection that carry an identifier
Carriers(videoId) ==
    {k \in DOMAIN dbRecipes : dbRecipes[k].videoId = videoId}

\* this step is the answer to the query of the pending delete i, and the
\* query did not fail
QueryAnswered(i) ==
    /\ deletes[i].stage = "getDocs"
    /\ lastAnswer' = "ok"
    /\ \/ deletes' = RemoveAt(deletes, i)
       \/ /\ Len(deletes') = Len(deletes)
          /\ deletes'[i].stage = "deleteDoc"
          /\ \A j \in DOMAIN deletes : j # i => deletes'[j] = deletes[j]

\* this step is the answer to the deleteDoc of the pending delete i, and
\* the backend did not fail
DeleteAnswered(i) ==
    /\ deletes[i].stage = "deleteDoc"
    /\ lastAnswer' = "ok"
    /\ deletes' = RemoveAt(deletes, i)

\* C12: a delete for an identifier that no record carries (when its query
\* is answered) reports 'Recipe not found!' and leaves the collection
\* unchanged.
C12_DeleteNotFound ==
    [][\A i \in DOMAIN deletes :
          QueryAnswered(i) /\ Carriers(deletes[i].videoId) = {} =>
              /\ deletes' = RemoveAt(deletes, i)
              /\ toastMessage' = "Recipe not found!"
              /\ showToast'
              /\ dbRecipes' = dbRecipes]_vars

\* 'Recipe not found!' is on screen: a card of the in-memory list was
\* clicked after its record had been deleted, while another record is left
C12_Witness ==
    /\ showToast
    /\ toastMessage = "Recipe not found!"
    /\ dbRecipes # <<>>

\* C13: a delete for an identifier carried by one or more records removes
\* exactly one record, whose identifier is the target, and leaves every
\* other record, those with the same identifier included, untouched.
C13_DeleteExactlyOne ==
    [][\A i \in DOMAIN deletes :
          DeleteAnswered(i) /\ Carriers(deletes[i].videoId) # {} =>
              \E k \in Carriers(deletes[i].videoId) :
                  dbRecipes' = RemoveAt(dbRecipes, k)]_vars

----------------------------------------------------------------------------
(* Properties of the grocery list and of the handlers, under SpecData *)

\* this step is the setDoc answer of the pending save i
SaveAnswered(i, answer) ==
    /\ saves' = RemoveAt(saves, i)
    /\ lastAnswer' = answer

\* this step delivers a snapshot of the grocery document to its listener
GroceryEvent ==
    grocerySub /\ groceryDirty /\ ~groceryDirty' /\ grocerySub'

\* C14: a successful grocery save writes exactly the text the in-memory
\* grocery text held when save was invoked (the only writes to the document
\* are these), and the subscription event that follows, which the write
\* makes due, sets the in-memory text to the text the document then holds.
C14_SaveRoundTrip ==
    [][/\ Len(saves') > Len(saves) =>
              saves' = Append(saves, [content |-> groceryText])
       /\ \A i \in DOMAIN saves :
              SaveAnswered(i, "ok") =>
                  /\ dbGrocery' = [exists |-> TRUE,
                                   content |-> saves[i].content]
                  /\ groceryDirty' = grocerySub
       /\ dbGrocery' # dbGrocery =>
              \E i \in DOMAIN saves : SaveAnswered(i, "ok")
       /\ GroceryEvent /\ dbGrocery.exists =>
              groceryText' = dbGrocery.content]_vars

\* the typed text was saved and the event that followed has delivered it
C14_Witness ==
    /\ lastCall = "handleSaveGroceryList"
    /\ lastAnswer = "ok"
    /\ dbGrocery = [exists |-> TRUE, content |-> "milk, eggs"]
    /\ grocerySub
    /\ ~groceryDirty
    /\ groceryText = "milk, eggs"

\* this step invokes handleSaveGroceryList
SaveInvoked ==
    calls' # calls /\ lastCall' = "handleSaveGroceryList"

\* C15: a grocery save leaves edit mode exactly when the backend write
\* succeeds; on a failed write, or when invoked before the session is
\* ready, the edit-mode flag and the in-memory text are unchanged and a
\* failure or 'loading' toast is shown.
C15_SaveLeavesEditMode ==
    [][/\ \A i \in DOMAIN saves :
              /\ SaveAnswered(i, "ok") => ~isGroceryListEditing'
              /\ SaveAnswered(i, "error") =>
                     /\ UNCHANGED <<isGroceryListEditing, groceryText>>
                     /\ showToast'
                     /\ toastMessage' =
                          "Failed to save grocery list. Please check console."
       /\ SaveInvoked /\ ~isAuthReady =>
              /\ UNCHANGED <<isGroceryListEditing, groceryText, saves>>
              /\ showToast'
              /\ toastMessage' = "Application is loading. Cannot save."
       /\ SaveInvoked /\ isAuthReady =>
              UNCHANGED <<isGroceryListEditing, groceryText>>
       /\ isGroceryListEditing /\ ~isGroceryListEditing' =>
              \E i \in DOMAIN saves : SaveAnswered(i, "ok")]_vars

\* a write has failed: the failure toast is shown, the list is still being
\* edited and holds the typed text, which the document does not
C15_Witness ==
    /\ lastAnswer = "error"
    /\ showToast
    /\ toastMessage = "Failed to save grocery list. Please check console."
    /\ isGroceryListEditing
    /\ groceryText = "milk, eggs"
    /\ dbGrocery.content # "milk, eggs"

\* this step delivers a snapshot of the recipes collection to its listener
RecipesEvent ==
    recipesSub /\ recipesDirty /\ ~recipesDirty' /\ recipesSub'

\* the content of the grocery document as the listener reads it
DocumentText ==
    IF dbGrocery.exists /\ dbGrocery.content # "" THEN dbGrocery.content
    ELSE ""

\* C19: every event of the recipes subscription replaces the whole
\* in-memory list with the snapshot; every event of the grocery subscription
\* replaces the in-memory text with the content of the document (empty when
\* the document is missing or its content empty), in edit mode or not; once
\* no event is due, the in-memory list is the collection.
C19_EventsReplaceState ==
    [][/\ RecipesEvent => recipes' = dbRecipes
       /\ GroceryEvent => groceryText' = DocumentText
       /\ recipesSub' /\ ~recipesDirty' => recipes' = dbRecipes']_vars

\* both first snapshots are delivered, the grocery one while the list was
\* being edited
C19_Witness ==
    /\ recipesSub /\ ~recipesDirty
    /\ recipes = dbRecipes /\ recipes # <<>>
    /\ grocerySub /\ ~groceryDirty
    /\ isGroceryListEditing
    /\ groceryText = "milk"
    /\ calls = 0

\* this step belongs to a mutation handler: an invocation or the answer to
\* one of its backend calls
HandlerStep ==
    \/ calls' # calls
    \/ appends' # appends
    \/ deletes' # deletes
    \/ saves' # saves

\* this step is the onChange of the textarea
TypingStep ==
    /\ GroceryListShown /\ isGroceryListEditing
    /\ UNCHANGED <<opVars, dbRecipes, dbGrocery, recipesDirty, groceryDirty>>

\* C20: append, delete and save never modify the in-memory recipe list or
\* the in-memory grocery text themselves, whether they succeed or fail: the
\* list changes only in the callback of its subscription, the text only in
\* the callback of its subscription and by typing.
C20_HandlersLeaveMemory ==
    [][/\ HandlerStep => UNCHANGED <<recipes, groceryText>>
       /\ recipes' # recipes => RecipesEvent
       /\ groceryText' # groceryText => GroceryEvent \/ TypingStep]_vars

\* a delete has succeeded and the in-memory list still holds the record:
\* the snapshot is due
C20_Witness ==
    /\ lastCall = "handleDeleteRecipe"
    /\ lastAnswer = "ok"
    /\ deletes = <<>>
    /\ Len(recipes) > Len(dbRecipes)
    /\ recipesDirty

----------------------------------------------------------------------------
(* Properties of the title the resolver sets, under SpecModal *)

\* this step is the answer to the metadata call of a mounted dialog
TitleAnswered ==
    /\ showAddModal /\ showAddModal'
    /\ Cardinality(fetches \ fetches') = 1
    /\ fetches' \subseteq fetches
    /\ UNCHANGED <<youtubeUrl, handler, edits, burstEdits>>

\* this step is the debounce timeout firing for a string with an identifier
ValidFireStep ==
    /\ showAddModal /\ showAddModal'
    /\ handler # {} /\ handler' = {}
    /\ youtubeUrl' = youtubeUrl
    /\ getYoutubeVideoId(youtubeUrl) # <<>>

\* C16: for a string from which an identifier is extracted, the title the
\* resolver sets is the title of the first result when the metadata call
\* returns one, the 'not found or private' placeholder when it returns none,
\* the 'error fetching' placeholder when the call or its decoding fails and
\* the 'key missing' placeholder when no key is configured; in none of the
\* four cases is a toast shown or the validity flag cleared.
C16_ResolvedTitle ==
    [][/\ TitleAnswered =>
              /\ \A f \in fetches \ fetches' :
                     /\ lastAnswer' = "items" =>
                            videoTitle' = ApiTitle(f.videoId)
                     /\ lastAnswer' = "empty" => videoTitle' = TitleNotFound
                     /\ lastAnswer' = "error" => videoTitle' = TitleFetchError
              /\ lastAnswer' \in FetchOutcomes
              /\ isValidUrl' = isValidUrl
              /\ UNCHANGED <<toastMessage, showToast, toastTimers>>
       /\ ValidFireStep =>
              /\ ~apiKey => videoTitle' = TitleKeyMissing
              /\ apiKey => videoTitle' = videoTitle
              /\ isValidUrl'
              /\ UNCHANGED <<toastMessage, showToast, toastTimers>>]_vars

\* the metadata call for the link in the field returned no result: the
\* placeholder is the title, the link is still valid, no toast is shown
C16_Witness ==
    /\ showAddModal
    /\ youtubeUrl = UrlShortsB
    /\ fetches = {}
    /\ lastAnswer = "empty"
    /\ videoTitle = TitleNotFound
    /\ isValidUrl
    /\ ~showToast

----------------------------------------------------------------------------
(* Properties of the extraction, under SpecExtract *)

\* the token the resolver extracted from the field, read from the thumbnail
\* it has set
ExtractedToken ==
    IF thumbnailUrl = <<>> THEN <<>>
    ELSE SubSeq(thumbnailUrl, Len(ThumbPrefix) + 1,
                Len(thumbnailUrl) - Len(ThumbSuffix))

\* the resolver has run for the string in the field
Resolved ==
    showAddModal /\ handler = {} /\ youtubeUrl # <<>>

\* C17: the extraction returns the same token for a short link, a watch
\* link, an embed link and a shorts link to the same video; the general
\* pattern is tried first and the shorts pattern only when it fails; the
\* result is always empty or exactly 11 characters of [a-zA-Z0-9_-].
C17_ExtractedId ==
    Resolved =>
        /\ \A scheme \in UrlSchemes, form \in UrlForms, suffix \in UrlSuffixes,
              videoId \in {IdA, IdB} :
              youtubeUrl = MakeUrl(scheme, form, videoId, suffix) =>
                  /\ ExtractedToken = videoId
                  /\ isValidUrl
                  /\ \A f \in fetches : f.videoId = videoId
                  /\ \A i \in DOMAIN appends : appends[i].rec.videoId = videoId
        /\ ExtractedToken = IF youtubeRegex(youtubeUrl) # <<>>
                            THEN youtubeRegex(youtubeUrl)
                            ELSE shortsRegex(youtubeUrl)
        /\ \/ ExtractedToken = <<>> /\ ~isValidUrl
           \/ /\ Len(ExtractedToken) = 11
              /\ \A k \in DOMAIN ExtractedToken : ExtractedToken[k] \in IdChars
              /\ isValidUrl

\* the resolver has run for a string both patterns match: the token is the
\* one of the general pattern
C17_Witness ==
    /\ Resolved
    /\ youtubeUrl = UrlBothPatterns
    /\ ExtractedToken = IdA

----------------------------------------------------------------------------
(* Properties of the home view, under SpecBrowse *)

\* two characters are the same letter in either case, or the same character
SameIgnoringCase(a, b) ==
    \/ a = b
    \/ \E n \in DOMAIN UpperCase :
          {a, b} = {UpperCase[n], LowerCase[n]}

\* term occurs in title, case-insensitively
ContainsIgnoringCase(title, term) ==
    \E k \in 0..(Len(title) - Len(term)) :
        \A j \in DOMAIN term : SameIgnoringCase(title[k + j], term[j])

\* the positions in the in-memory list of the records a section shows
Shown(category) ==
    {k \in DOMAIN recipes :
        /\ ContainsIgnoringCase(recipes[k].title, searchTerm)
        /\ category \in {recipes[k].tags[t] : t \in DOMAIN recipes[k].tags}}

\* C18: on the home view each of the five category sections, in the fixed
\* order of the category list, shows exactly the in-memory recipes whose
\* title contains the search term case-insensitively and whose tags include
\* the category, in in-memory order; a recipe with several tags is in the
\* section of each.
C18_SectionCards ==
    HomeShown =>
        /\ DOMAIN Sections = 1..5
        /\ \A c \in DOMAIN Sections :
              /\ Len(Sections[c]) = Cardinality(Shown(categories[c]))
              /\ \A k \in Shown(categories[c]) :
                     Sections[c][Cardinality({j \in Shown(categories[c]) :
                                               j <= k})] = recipes[k]

\* a term in upper case is searched in three records: the record it
\* matches is the only card of both sections of its tags, and the section
\* of a tag only the others carry is empty
C18_Witness ==
    /\ HomeShown
    /\ Len(recipes) = 3
    /\ searchTerm = TermDosaUpper
    /\ Len(Sections[1]) = 1 /\ Sections[1][1].title = ApiTitleB
    /\ Len(Sections[4]) = 1 /\ Sections[4][1].title = ApiTitleB
    /\ Sections[2] = <<>>

\* ---- the append mutation and its failures ----

\* the step in which an addDoc is answered
AppendAnswered ==
    Len(appends') < Len(appends)

\* the step in which handleSubmit hands a record to a handler that refuses
\* it because the session is not ready
RefusedSubmit ==
    /\ submits' = submits + 1
    /\ lastSubmit' = "appended"
    /\ ~isAuthReady

\* C21: the append mutation never rejects: a failed write shows the
\* 'Failed to add recipe' toast, writes nothing and is not retried, and the
\* dialog is closed once the handler completes, whether the write
\* succeeded, failed or was refused because the session was not ready
C21_AppendNeverRejects ==
    [][/\ AppendAnswered =>
            /\ Len(appends') = Len(appends) - 1
            /\ appMounted => ~showAddModal'
            /\ lastAnswer' = "error" =>
                   /\ dbRecipes' = dbRecipes
                   /\ addedToasts' = addedToasts
                   /\ appMounted =>
                          /\ showToast'
                          /\ toastMessage'
                                = "Failed to add recipe. Please check console."
       /\ RefusedSubmit =>
            /\ appends' = appends
            /\ ~showAddModal'
            /\ toastMessage'
                  = "Application is loading. Please wait for authentication."]_vars

\* a submitted record whose write failed: the toast is up, the dialog closed
C21_Witness ==
    /\ lastSubmit = "appended"
    /\ lastAnswer = "error"
    /\ ~showAddModal
    /\ showToast
    /\ toastMessage = "Failed to add recipe. Please check console."
    /\ dbRecipes = <<>>

\* ---- a backend that failed to initialise ----

\* C22: when the initialisation of the backend failed (no auth or database
\* handle) the session-ready flag stays false for ever, no listener or
\* subscription is attached and no handler attempts a backend read or write
C22_NoBackendNoAccess ==
    ~fbInit =>
        /\ ~isAuthReady
        /\ ~authListener
        /\ signInFlight = 0
        /\ ~recipesSub
        /\ ~grocerySub
        /\ recipeListeners = 0
        /\ groceryListeners = 0
        /\ appends = <<>>
        /\ deletes = <<>>
        /\ saves = <<>>

\* without a backend, handleAddRecipe was called and refused
C22_Witness ==
    /\ ~fbInit
    /\ lastCall = "handleAddRecipe"
    /\ showToast
    /\ toastMessage = "Application is loading. Please wait for authentication."
    /\ appends = <<>>

\* ---- the draft of a dismissed dialog ----

\* the step in which the add-recipe dialog is dismissed
Dismissal ==
    showAddModal /\ ~showAddModal'

\* C23: the draft fields of a dismissed dialog keep their values (they are
\* cleared one second later, not at the moment of dismissal)
C23_DraftKeptAtDismissal ==
    [][Dismissal =>
         UNCHANGED <<youtubeUrl, thumbnailUrl, videoTitle, selectedTags,
                     isValidUrl>>]_vars

\* ---- one record for each video ----

\* C24: after any sequence of submissions and deletions no two records of
\* the collection carry the same video identifier
C24_UniqueVideoIds ==
    \A i, j \in DOMAIN dbRecipes :
        dbRecipes[i].videoId = dbRecipes[j].videoId => i = j

\* ---- the grocery text across the views ----

\* C25: switching the view between 'home' and 'groceryList' leaves the
\* grocery text and the grocery edit-mode flag unchanged
C25_ViewSwitchKeepsGrocery ==
    [][currentView' # currentView =>
         UNCHANGED <<groceryText, isGroceryListEditing>>]_vars

\* back on the home view with an edit under way: the typed text, which the
\* backend does not hold, and the edit mode are still there
C25_Witness ==
    /\ currentView = "home"
    /\ isGroceryListEditing
    /\ groceryText = "milk, eggs"
    /\ dbGrocery.content # "milk, eggs"
    /\ saves = <<>>

\* ---- the draft of an open dialog ----

\* a step that leaves the dialog open and in which only events that do not
\* touch the form happen: a subscription event, a toast shown or dismissed,
\* a change of the session-ready flag
OutsideEvent ==
    /\ showAddModal /\ showAddModal'
    /\ edits' = edits /\ submits' = submits
    /\ \/ recipesDirty /\ ~recipesDirty'
       \/ groceryDirty /\ ~groceryDirty'
       \/ showToast' # showToast
       \/ toastMessage' # toastMessage
       \/ isAuthReady' # isAuthReady

\* C26: while the add-recipe dialog stays open, events that do not touch
\* the form leave its draft fields (URL, thumbnail, title, selected tags,
\* validity and loading flags) unchanged
C26_OutsideEventsKeepDraft ==
    [][OutsideEvent =>
         UNCHANGED <<youtubeUrl, thumbnailUrl, videoTitle, selectedTags,
                     isValidUrl, isLoadingThumbnail, isFetchingTitle>>]_vars

\* ---- the record handed to the append mutation ----

\* the titles the dialog falls back on
FallbackTitles ==
    {TitleUntitled, TitleNotFound, TitleFetchError, TitleKeyMissing}

\* the record is about one video
Consistent(rec) ==
    /\ rec.videoId = getYoutubeVideoId(rec.youtubeUrl)
    /\ rec.thumbnailUrl = getYoutubeThumbnailUrl(rec.videoId)
    /\ rec.title # <<>>
    /\ rec.title \in {ApiTitle(rec.videoId)} \cup FallbackTitles

\* C27: every record passed to the append mutation is internally
\* consistent: its identifier is the one extracted from its own URL, its
\* thumbnail is the template applied to that identifier, and its title is
\* non-empty and was resolved for that identifier or is a fallback string
C27_AppendedConsistent ==
    \A i \in DOMAIN appends : Consistent(appends[i].rec)

\* ---- the three seconds of a toast ----

\* the step in which the message on display is hidden or blanked
ToastHidden ==
    /\ appMounted
    /\ showToast
    /\ ~showToast' \/ toastMessage' = ""

\* the timeout started by the call that showed the message on display (the
\* latest call) is due
OwnTimerDue ==
    /\ toastTimers # <<>>
    /\ toastTimers[Len(toastTimers)] = 0

\* C28: a message shown by showActionToast stays visible for the full 3
\* seconds after the call that showed it: it is hidden only by the timer
\* of its own call, never by the timer an earlier call started
C28_ToastKeepsItsTime ==
    [][ToastHidden => OwnTimerDue]_vars

\* ---- two sessions deleting the same video ----

\* this session reports 'Recipe Deleted!' in this step
LocalReport ==
    \E i \in DOMAIN deletes : DeleteAnswered(i)

\* the other session reports 'Recipe Deleted!' in this step
RemoteReport ==
    \E i \in DOMAIN remoteDeletes :
        /\ remoteDeletes[i].stage = "deleteDoc"
        /\ remoteDeletes' = RemoveAt(remoteDeletes, i)

\* C29: when two sessions run delete-by-identifier concurrently, each
\* 'Recipe Deleted!' report corresponds to a record that operation removed:
\* the step of a report takes one record out of the collection
C29_ReportsMatchRemovals ==
    [][LocalReport \/ RemoteReport =>
         Len(dbRecipes') = Len(dbRecipes) - 1]_vars

\* ---- the subscriptions of the mounted application ----

\* C30: at every moment the backend holds at most one recipes listener and
\* at most one grocery listener for the application (the one the
\* application knows of), across mount, the StrictMode remount, changes of
\* the session-ready flag and unmount; after teardown it holds none and
\* no callback changes the state any more
C30_OneSubscriptionEach ==
    /\ [](/\ recipeListeners = IF recipesSub THEN 1 ELSE 0
          /\ groceryListeners = IF grocerySub THEN 1 ELSE 0
          /\ ~appMounted => ~recipesSub /\ ~grocerySub /\ ~authListener)
    /\ [][~appMounted =>
            UNCHANGED <<recipes, groceryText, isAuthReady, toastMessage,
                        showToast>>]_vars

\* a page that went through the remount, became ready, received its
\* recipes and was then torn down
C30_Witness ==
    /\ ~appMounted
    /\ strictPhase = "none"
    /\ isAuthReady
    /\ recipes # <<>>
    /\ recipeListeners = 0
    /\ groceryListeners = 0
====
